---------------------------- MODULE Spec2Model ----------------------------
(***************************************************************************)
(* A model of the honey compactor (backends/honey/honey_compact.cc):       *)
(* BufferedFile, SSIndex and SSTable at the level of bytes, the postlist   *)
(* cursors and merge_postlists at the level of (key, tag) records whose    *)
(* keys and tags are byte strings, and multimerge_postlists on top of      *)
(* both.  Strings are sequences of bytes (0..255).                         *)
(***************************************************************************)
EXTENDS Integers, Sequences, FiniteSets, TLC

VARIABLES
    junk,       \* the byte an unwritten cell of a new BufferedFile::buf holds
    tbl,        \* SpecSST: the SSTable under test
    root_info,  \* SpecSST: the RootInfo handed to commit
    accepted,   \* SpecSST: the records add() accepted, in call order
    items,      \* SpecSST: the records read_item() returned, in call order
    call,       \* SpecSST: the last call made and how it ended
    proto,      \* SpecSST: how far the calls have followed add*, flush_db, commit
    srcs,       \* the postlist tables of the source databases, as (key, tag) lists
    offset,     \* the docid offset of each source
    compactor,  \* whether a Compactor (with its resolver) was passed
    inputs,     \* merge_postlists: the tables [b, e) of the current call
    offs,       \* merge_postlists: the offsets of the current call
    cur,        \* merge_postlists: the cursor made for each input
    pc,         \* merge_postlists: the loop the current call is in
    loc,        \* merge_postlists: the locals of the current call
    out,        \* merge_postlists: the table written, and the records it accepted
    err,        \* the exception that ended the current call, or "none"
    resolved,   \* the calls of resolve_duplicate_metadata made so far
    drv         \* multimerge_postlists: its locals and the call it is at

sstVars == <<tbl, root_info, accepted, items, call, proto>>
mergeVars == <<srcs, offset, compactor, inputs, offs, cur, pc, loc, out, err,
              resolved, drv>>
vars == <<junk, sstVars, mergeVars>>

-----------------------------------------------------------------------------
(* Bounds of the model.                                                    *)

\* sizeof(BufferedFile::buf) and of read_item's local buf: 4096 in the
\* source, scaled down so that files of several buffers stay small.
BufSize == 8
\* SSIndex::INDEXBLOCK: 1024 in the source, scaled down with BufSize.
INDEXBLOCK == 4
\* The number of add() calls SpecSST accepts on one table.
MaxAdds == 2
\* The number of flush_db() calls SpecSST makes on one table.
MaxFlush == 1

\* The largest key SSTable::add accepts.
MaxKeyLen == 255

EOF == -1

Min(a, b) == IF a < b THEN a ELSE b

-----------------------------------------------------------------------------
(* Strings.                                                                *)

\* The length of the common prefix of a and b, counted from i: the loop
\* "for (i = 0; i < len; ++i) if (last_key[i] != key[i]) break;".
RECURSIVE CommonPrefix(_, _, _)
CommonPrefix(a, b, i) ==
    IF i < Len(a) /\ i < Len(b) /\ a[i + 1] = b[i + 1]
    THEN CommonPrefix(a, b, i + 1)
    ELSE i

\* std::string operator< : lexicographic on unsigned bytes.
StrLess(a, b) ==
    LET i == CommonPrefix(a, b, 0)
    IN  IF i = Len(a) THEN Len(b) > i
        ELSE IF i = Len(b) THEN FALSE
        ELSE a[i + 1] < b[i + 1]

StrLeq(a, b) == a = b \/ StrLess(a, b)

Drop(s, n) == SubSeq(s, n + 1, Len(s))
Take(s, n) == SubSeq(s, 1, n)
Fill(n, b) == [i \in 1..n |-> b]

\* pack_uint: 7 bits a byte, low bits first, the high bit set on every byte
\* but the last.
RECURSIVE pack_uint(_)
pack_uint(n) ==
    IF n >= 128 THEN <<(n % 128) + 128>> \o pack_uint(n \div 128) ELSE <<n>>

\* The number of bytes unpack_uint consumes from s: up to and including
\* the first byte below 128; 0 when s holds no such byte (out of data).
RECURSIVE UintLen(_, _)
UintLen(s, i) ==
    IF i > Len(s) THEN 0
    ELSE IF s[i] < 128 THEN i
    ELSE UintLen(s, i + 1)

\* A length no file of the model reaches; unpack_uint yields it for every
\* value of 2^28 or more (five bytes and more), which no table written
\* here holds and which read_item can only fail to read.
Huge == 268435456

RECURSIVE UintVal(_, _)
UintVal(s, n) ==
    IF n = 0 THEN 0
    ELSE IF n > 4 THEN Huge
    ELSE (s[1] % 128) + 128 * UintVal(Drop(s, 1), n - 1)

\* unpack_uint on the head of s: ok, the value, and the rest of s.
unpack_uint(s) ==
    LET n == UintLen(s, 1)
    IN  IF n = 0 THEN [ok |-> FALSE, val |-> 0, rest |-> <<>>]
        ELSE [ok |-> TRUE, val |-> UintVal(s, n), rest |-> Drop(s, n)]

-----------------------------------------------------------------------------
(* BufferedFile.  file is the content of the file behind fd and fpos the   *)
(* offset of fd; buf and buf_end are the members of the class.  The        *)
(* operating system accepts every write whole here.                        *)

\* A BufferedFile opened for writing: io_open_block_wr(path, true) creates
\* the file anew; buf is not initialised by the constructor.
BufferedFile_open(j) ==
    [file |-> <<>>, fpos |-> 0, buf |-> Fill(BufSize, j), buf_end |-> 0,
     read_only |-> FALSE]

\* ::write(fd, p, len) at the offset of fd.
OsWrite(bf, p) ==
    [bf EXCEPT !.file = Take(@, bf.fpos) \o p \o Drop(@, bf.fpos + Len(p)),
               !.fpos = @ + Len(p)]

BufferedFile_get_pos(bf) ==
    IF bf.read_only THEN bf.fpos - bf.buf_end ELSE bf.fpos + bf.buf_end

\* write(unsigned char ch)
BufferedFile_write_ch(bf, ch) ==
    LET b1 == IF bf.buf_end = BufSize
              THEN [OsWrite(bf, bf.buf) EXCEPT !.buf_end = 0]
              ELSE bf
    IN  [b1 EXCEPT !.buf[b1.buf_end + 1] = ch, !.buf_end = @ + 1]

\* write(const char* p, size_t len)
BufferedFile_write(bf, p) ==
    IF bf.buf_end + Len(p) <= BufSize
    THEN [bf EXCEPT !.buf = [i \in 1..BufSize |->
                                IF i > bf.buf_end /\ i <= bf.buf_end + Len(p)
                                THEN p[i - bf.buf_end] ELSE @[i]],
                    !.buf_end = @ + Len(p)]
    ELSE \* writev(buf, p) writes everything
         [OsWrite(bf, Take(bf.buf, bf.buf_end) \o p) EXCEPT !.buf_end = 0]

\* flush()
BufferedFile_flush(bf) ==
    IF ~bf.read_only /\ bf.buf_end > 0
    THEN [OsWrite(bf, Take(bf.buf, bf.buf_end)) EXCEPT !.buf_end = 0]
    ELSE bf

\* rewind()
BufferedFile_rewind(bf) ==
    [bf EXCEPT !.read_only = TRUE, !.fpos = 0, !.buf_end = 0]

\* ::read(fd, buf, n): the bytes the file holds from the offset of fd on,
\* at most n of them.
OsRead(bf, n) == SubSeq(bf.file, bf.fpos + 1, Min(Len(bf.file), bf.fpos + n))

\* int read(): ::read fills buf from its start, and the byte returned is
\* buf[sizeof(buf) - buf_end].
BufferedFile_read_ch(bf) ==
    LET got == OsRead(bf, BufSize)
        b1 == IF bf.buf_end = 0
              THEN [bf EXCEPT !.buf = [i \in 1..BufSize |->
                                          IF i <= Len(got) THEN got[i] ELSE @[i]],
                              !.fpos = @ + Len(got),
                              !.buf_end = Len(got)]
              ELSE bf
    IN  IF b1.buf_end = 0
        THEN [bf |-> b1, ch |-> EOF]
        ELSE [bf |-> [b1 EXCEPT !.buf_end = @ - 1],
              ch |-> b1.buf[BufSize - b1.buf_end + 1]]

\* bool read(char* p, size_t len): what is left in buf, then the rest
\* straight from the file.
BufferedFile_read(bf, len) ==
    IF len <= bf.buf_end
    THEN [bf |-> [bf EXCEPT !.buf_end = @ - len], ok |-> TRUE,
          p |-> SubSeq(bf.buf, BufSize - bf.buf_end + 1,
                       BufSize - bf.buf_end + len)]
    ELSE LET head == SubSeq(bf.buf, BufSize - bf.buf_end + 1, BufSize)
             need == len - bf.buf_end
             got == OsRead(bf, need)
         IN  [bf |-> [bf EXCEPT !.buf_end = 0, !.fpos = @ + Len(got)],
              ok |-> Len(got) = need,
              p |-> head \o got]

-----------------------------------------------------------------------------
(* SSIndex.                                                                *)

SSIndex_new == [data |-> <<>>, block |-> 0, n_index |-> 0, last_index_key |-> <<>>]

\* maybe_add_entry without "if (cur_block == block) return;".
SSIndex_maybe_add_entry_Always(ix, key, ptr) ==
    [data |-> ix.data \o <<CommonPrefix(ix.last_index_key, key, 0) % 256,
                           (Len(key) - CommonPrefix(ix.last_index_key, key, 0)) % 256>>
                     \o Drop(key, CommonPrefix(ix.last_index_key, key, 0))
                     \o pack_uint(ptr),
     block |-> ptr \div INDEXBLOCK,
     n_index |-> ix.n_index + 1,
     last_index_key |-> key]

\* maybe_add_entry(key, ptr)
SSIndex_maybe_add_entry(ix, key, ptr) ==
    LET cur_block == ptr \div INDEXBLOCK
        reuse == CommonPrefix(ix.last_index_key, key, 0)
    IN  IF cur_block = ix.block THEN ix
        ELSE [data |-> ix.data \o <<reuse % 256, (Len(key) - reuse) % 256>>
                          \o Drop(key, reuse) \o pack_uint(ptr),
              block |-> cur_block,
              n_index |-> ix.n_index + 1,
              last_index_key |-> key]

-----------------------------------------------------------------------------
(* SSTable.                                                                *)

\* SSTable(name, path, read_only = false) followed by create_and_open().
SSTable_new(j) ==
    [read_only |-> FALSE, fh |-> BufferedFile_open(j), last_key |-> <<>>,
     index |-> SSIndex_new, root |-> -1, num_entries |-> 0]

\* "key.size() == 0 || key.size() > 255"
BadKeySize_NoZero(key) == Len(key) > MaxKeyLen
BadKeySize(key) == Len(key) = 0 \/ Len(key) > MaxKeyLen

\* "key <= last_key"
KeyNotAfter_Less(key, last_key) == StrLess(key, last_key)
KeyNotAfter(key, last_key) == StrLeq(key, last_key)

\* add(key, val, compressed): the table after the call, or the exception.
SSTable_add(t, key, val, compressed) ==
    IF t.read_only THEN [t |-> t, err |-> "InvalidOperationError"]
    ELSE IF BadKeySize(key)
    THEN [t |-> t, err |-> "InvalidArgumentError"]
    ELSE IF KeyNotAfter(key, t.last_key)
    THEN [t |-> t, err |-> "InvalidOperationError"]
    ELSE
    LET i == CommonPrefix(t.last_key, key, 0)
        f1 == IF t.last_key # <<>>
              THEN BufferedFile_write(
                       BufferedFile_write_ch(
                           BufferedFile_write_ch(t.fh, i % 256),
                           (Len(key) - i) % 256),
                       Drop(key, i))
              ELSE BufferedFile_write(
                       BufferedFile_write_ch(t.fh, Len(key) % 256), key)
        ix == SSIndex_maybe_add_entry(t.index, key, BufferedFile_get_pos(f1))
        val_size_enc == 2 * Len(val) + (IF compressed THEN 1 ELSE 0)
        f2 == BufferedFile_write(BufferedFile_write(f1, pack_uint(val_size_enc)), val)
    IN  [t |-> [t EXCEPT !.fh = f2, !.index = ix, !.last_key = key,
                         !.num_entries = @ + 1],
         err |-> "none"]

SSTable_flush_db_RootAfter(t) ==
    LET f == BufferedFile_write(t.fh, t.index.data)
    IN  [t EXCEPT !.root = BufferedFile_get_pos(f), !.fh = BufferedFile_flush(f)]

\* flush_db(): root = index.write(fh); fh.flush().
SSTable_flush_db(t) ==
    [t EXCEPT !.root = BufferedFile_get_pos(t.fh),
              !.fh = BufferedFile_flush(BufferedFile_write(t.fh, t.index.data))]

\* RootInfo::init(blocksize, compress_min)
RootInfo_init(blocksize, compress_min) ==
    [level |-> 0, num_entries |-> 0, root_is_fake |-> TRUE, sequential |-> TRUE,
     root |-> 0, blocksize |-> blocksize, compress_min |-> compress_min]

\* commit without "if (root < 0) throw".
SSTable_commit_Unchecked(t, ri) ==
    [t |-> [t EXCEPT !.read_only = TRUE,
                     !.fh = BufferedFile_rewind(t.fh),
                     !.last_key = <<>>],
     ri |-> [ri EXCEPT !.level = 1, !.num_entries = t.num_entries,
                       !.root_is_fake = FALSE, !.sequential = TRUE,
                       !.root = t.root, !.blocksize = 2048],
     err |-> "none"]

\* commit(revision, root_info)
SSTable_commit(t, ri) ==
    IF t.root < 0 THEN [t |-> t, ri |-> ri, err |-> "InvalidOperationError"]
    ELSE [t |-> [t EXCEPT !.read_only = TRUE,
                          !.fh = BufferedFile_rewind(t.fh),
                          !.last_key = <<>>],
          ri |-> [ri EXCEPT !.level = 1, !.num_entries = t.num_entries,
                            !.root_is_fake = FALSE, !.sequential = TRUE,
                            !.root = t.root, !.blocksize = 2048],
          err |-> "none"]

\* The length bytes of a value: read_item's loop of up to 8 read() calls
\* that ends after the first byte below 128 or at the end of the file.
RECURSIVE ReadLenBytes(_, _, _)
ReadLenBytes(bf, i, acc) ==
    IF i = 8 THEN [bf |-> bf, bytes |-> acc]
    ELSE LET r == BufferedFile_read_ch(bf)
         IN  IF r.ch = EOF THEN [bf |-> r.bf, bytes |-> acc]
             ELSE IF r.ch < 128 THEN [bf |-> r.bf, bytes |-> Append(acc, r.ch)]
             ELSE ReadLenBytes(r.bf, i + 1, Append(acc, r.ch))

\* The bytes of a value: read_item's loop "while (val_size)" of read(buf, n)
\* calls with n = min(val_size, sizeof(buf)).
RECURSIVE ReadVal(_, _, _)
ReadVal(bf, val_size, acc) ==
    IF val_size = 0 THEN [bf |-> bf, ok |-> TRUE, val |-> acc]
    ELSE LET n == Min(val_size, BufSize)
             r == BufferedFile_read(bf, n)
         IN  IF ~r.ok THEN [bf |-> r.bf, ok |-> FALSE, val |-> acc]
             ELSE ReadVal(r.bf, val_size - n, acc \o r.p)

NoItem == [key |-> <<>>, val |-> <<>>, compressed |-> FALSE]

\* read_item returns false or throws: the table with its file as it was
\* left, and the exception ("none" at the end of the file).
read_item_fails(t, bf, e) ==
    [t |-> [t EXCEPT !.fh = bf], ok |-> FALSE, item |-> NoItem, err |-> e]

\* read_item from "val.assign(p, end)" on: rv is the value as read.
read_item_val(t, key, u, rv) ==
    IF ~rv.ok THEN read_item_fails([t EXCEPT !.last_key = key], rv.bf, "DatabaseError")
    ELSE [t |-> [t EXCEPT !.fh = rv.bf, !.last_key = key], ok |-> TRUE,
          item |-> [key |-> key, val |-> rv.val, compressed |-> (u.val % 2 = 1)],
          err |-> "none"]

\* read_item from unpack_uint(&p, end, &val_size) on: u is its result on
\* the length bytes, bf the file after they were read.
read_item_size(t, key, bf, u) ==
    IF ~u.ok THEN read_item_fails([t EXCEPT !.last_key = key], bf, "DatabaseError")
    ELSE read_item_val(t, key, u, ReadVal(bf, u.val \div 2, u.rest))

\* read_item from the loop over the length bytes on: rl is its result.
read_item_len(t, key, rl) ==
    read_item_size(t, key, rl.bf, unpack_uint(rl.bytes))

\* read_item from "key.assign(last_key, 0, reuse)" on: rk is the result
\* of fh.read(buf, key_size).
read_item_key(t, reuse, rk) ==
    IF ~rk.ok THEN read_item_fails(t, rk.bf, "DatabaseError")
    ELSE read_item_len(t, Take(t.last_key, Min(reuse, Len(t.last_key))) \o rk.p,
                       ReadLenBytes(rk.bf, 0, <<>>))

\* read_item from "size_t key_size = ch" on: r2 is the read() that gave
\* the key size.
read_item_key_size(t, reuse, r2) ==
    IF r2.ch = EOF THEN read_item_fails(t, r2.bf, "DatabaseError")
    ELSE read_item_key(t, reuse, BufferedFile_read(r2.bf, r2.ch))

\* read_item from "if (ch == EOF) return false" on: r1 is the first
\* read(), which gives reuse when there is a last key and the key size
\* otherwise.
read_item_head(t, r1) ==
    IF r1.ch = EOF THEN read_item_fails(t, r1.bf, "none")
    ELSE IF t.last_key # <<>>
    THEN read_item_key_size(t, r1.ch, BufferedFile_read_ch(r1.bf))
    ELSE read_item_key_size(t, 0, r1)

\* read_item(key, val, compressed): the table after the call, whether an
\* item was returned, the item, and the exception if one was thrown.
SSTable_read_item(t) ==
    IF ~t.read_only THEN [t |-> t, ok |-> FALSE, item |-> NoItem, err |-> "none"]
    ELSE read_item_head(t, BufferedFile_read_ch(t.fh))

-----------------------------------------------------------------------------
(* SpecSST: one SSTable driven through its interface.  Every call is       *)
(* allowed in every state, as the class allows it; accepted, items, call   *)
(* and proto record what was asked and what was answered.                  *)

\* The bytes a new buffer may hold.
JunkBytes == {0, 129}

\* multimerge_postlists is not running.
NoDriver == [at |-> "none", calls |-> 1, c |-> 0, i |-> 0, j |-> 0,
             tmp |-> <<>>, tmpout |-> <<>>, off |-> <<>>, ref |-> <<>>]

\* No merge is under way (SpecSST).
MergeIdle ==
    /\ srcs = <<>> /\ offset = <<>> /\ compactor = FALSE
    /\ inputs = <<>> /\ offs = <<>> /\ cur = <<>>
    /\ pc = "idle" /\ loc = <<>> /\ out = <<>> /\ err = "none"
    /\ resolved = <<>> /\ drv = NoDriver

SstKeys == {<<>>, <<97>>, <<97, 98>>, <<98>>, Fill(MaxKeyLen + 1, 99)}
SstVals == {<<>>, Fill(5, 121), Fill(64, 122)}

NoCall == [op |-> "none", err |-> "none"]

\* The table of SpecSST as constructed, no call made on it.
SstIdle ==
    /\ tbl = SSTable_new(junk)
    /\ root_info = RootInfo_init(65536, 0)
    /\ accepted = <<>>
    /\ items = <<>>
    /\ call = NoCall
    /\ proto = [flushes |-> 0, late |-> FALSE, eof |-> FALSE, broken |-> FALSE]

InitSST ==
    /\ junk \in JunkBytes
    /\ SstIdle
    /\ MergeIdle

\* out->add(key, val, compressed)
Add(key, val, compressed) ==
    LET r == SSTable_add(tbl, key, val, compressed)
    IN  /\ r.err = "none" => Len(accepted) < MaxAdds
        /\ tbl' = r.t
        /\ accepted' = IF r.err = "none"
                       THEN Append(accepted, [key |-> key, val |-> val,
                                              compressed |-> compressed])
                       ELSE accepted
        /\ call' = [op |-> "add", err |-> r.err]
        /\ proto' = IF r.err = "none" /\ proto.flushes > 0
                    THEN [proto EXCEPT !.late = TRUE] ELSE proto
        /\ UNCHANGED <<junk, root_info, items, mergeVars>>

\* out->flush_db()
FlushDb ==
    /\ proto.flushes < MaxFlush
    /\ ~tbl.read_only
    /\ tbl' = SSTable_flush_db(tbl)
    /\ call' = [op |-> "flush_db", err |-> "none"]
    /\ proto' = [proto EXCEPT !.flushes = @ + 1]
    /\ UNCHANGED <<junk, root_info, accepted, items, mergeVars>>

\* out->commit(1, &root_info)
Commit ==
    LET r == SSTable_commit(tbl, root_info)
    IN  /\ ~tbl.read_only
        /\ tbl' = r.t
        /\ root_info' = r.ri
        /\ call' = [op |-> "commit", err |-> r.err]
        /\ UNCHANGED <<junk, accepted, items, proto, mergeVars>>

\* table->read_item(key, val, compressed)
ReadItem ==
    LET r == SSTable_read_item(tbl)
    IN  /\ ~proto.eof /\ ~proto.broken
        /\ tbl.read_only
        /\ tbl' = r.t
        /\ items' = IF r.ok THEN Append(items, r.item) ELSE items
        /\ call' = [op |-> "read_item", err |-> r.err]
        /\ proto' = [proto EXCEPT !.eof = (~r.ok /\ r.err = "none"),
                                  !.broken = (r.err # "none")]
        /\ UNCHANGED <<junk, root_info, accepted, mergeVars>>

NextSST ==
    \/ \E key \in SstKeys, val \in SstVals, compressed \in BOOLEAN :
           Add(key, val, compressed)
    \/ FlushDb
    \/ Commit
    \/ ReadItem

SpecSST == InitSST /\ [][NextSST]_vars

-----------------------------------------------------------------------------
(* BufferedFile when the operating system may accept only part of a write  *)
(* (SpecFile).  out holds the file object (fh) and the bytes passed to     *)
(* write so far (passed); each call draws what ::write and writev accept.  *)

\* What one ::write or writev call accepts of len bytes: all of them, one
\* byte, or all but one.
Modes == {"all", "one", "butone"}
Accepted(mode, len) ==
    IF mode = "all" \/ len <= 1 THEN len
    ELSE IF mode = "one" THEN 1
    ELSE len - 1

\* ::write(fd, p, len) that accepts the first Accepted(mode, len) bytes;
\* the caller ignores what it returns ("FIXME: retry short write").
OsWriteSome(bf, p, mode) == OsWrite(bf, Take(p, Accepted(mode, Len(p))))

\* The head of the answers still to come, "all" when none is left.
ModeOf(ms) == IF ms = <<>> THEN "all" ELSE ms[1]
RestOf(ms) == IF ms = <<>> THEN <<>> ELSE Tail(ms)

\* write(unsigned char ch)
BufferedFile_write_ch_some(bf, ch, mode) ==
    IF bf.buf_end = BufSize
    THEN [OsWriteSome(bf, bf.buf, mode) EXCEPT !.buf[1] = ch, !.buf_end = 1]
    ELSE [bf EXCEPT !.buf[bf.buf_end + 1] = ch, !.buf_end = @ + 1]

\* One turn of "while (true)" in write(p, len) once writev accepted n
\* bytes of buf and p: everything; or all of buf, and then the rest of p
\* goes to one ::write; or a part of buf.
BufferedFile_writev_tail(bf, p, n, ms) ==
    [OsWriteSome(OsWrite(bf, Take(Take(bf.buf, bf.buf_end) \o p, n)),
                 Drop(p, n - bf.buf_end), ModeOf(ms))
        EXCEPT !.buf_end = 0]

\* "buf_end -= n; memmove(buf, buf + n, buf_end);" after writev took n.
BufferedFile_writev_part(bf, n) ==
    [OsWrite(bf, Take(bf.buf, n))
        EXCEPT !.buf = [i \in 1..BufSize |->
                           IF i <= bf.buf_end - n THEN bf.buf[i + n] ELSE bf.buf[i]],
               !.buf_end = @ - n]

RECURSIVE BufferedFile_writev(_, _, _)
BufferedFile_writev_n(bf, p, n, ms) ==
    IF n = bf.buf_end + Len(p)
    THEN [OsWrite(bf, Take(bf.buf, bf.buf_end) \o p) EXCEPT !.buf_end = 0]
    ELSE IF n >= bf.buf_end
    THEN BufferedFile_writev_tail(bf, p, n, ms)
    ELSE BufferedFile_writev(BufferedFile_writev_part(bf, n), p, ms)

\* The loop of write(p, len): writev(fd, {buf, p}) with the next answer.
BufferedFile_writev(bf, p, ms) ==
    BufferedFile_writev_n(bf, p, Accepted(ModeOf(ms), bf.buf_end + Len(p)),
                          RestOf(ms))

\* write(const char* p, size_t len)
BufferedFile_write_some(bf, p, ms) ==
    IF bf.buf_end + Len(p) <= BufSize
    THEN BufferedFile_write(bf, p)
    ELSE BufferedFile_writev(bf, p, ms)

\* flush()
BufferedFile_flush_some(bf, mode) ==
    IF ~bf.read_only /\ bf.buf_end > 0
    THEN [OsWriteSome(bf, Take(bf.buf, bf.buf_end), mode) EXCEPT !.buf_end = 0]
    ELSE bf

\* The number of bytes SpecFile passes to write in all.
MaxPassed == 12
\* The lengths of the slices passed to write(p, len): within the buffer,
\* and longer than the buffer.
SliceLens == {3, BufSize + 1}
\* The answers drawn for the writev calls of one write and the ::write
\* after them.
MaxAnswers == 2

\* The bytes passed next: each byte is its own place in the stream, so
\* that a lost, doubled or misplaced byte shows.
NextBytes(len) == [i \in 1..len |-> (Len(out.passed) + i) % 256]

FileStep(fh, p, op) ==
    /\ out' = [fh |-> fh, passed |-> out.passed \o p]
    /\ call' = [op |-> op, err |-> "none"]
    /\ UNCHANGED <<junk, tbl, root_info, accepted, items, proto, srcs, offset,
                   compactor, inputs, offs, cur, pc, loc, err, resolved, drv>>

\* fh.write(ch)
FileWriteCh(mode) ==
    /\ Len(out.passed) + 1 <= MaxPassed
    /\ FileStep(BufferedFile_write_ch_some(out.fh, NextBytes(1)[1], mode),
                NextBytes(1), "write_ch")

\* fh.write(p, len)
FileWrite(len, ms) ==
    /\ Len(out.passed) + len <= MaxPassed
    /\ FileStep(BufferedFile_write_some(out.fh, NextBytes(len), ms),
                NextBytes(len), "write")

\* fh.flush()
FileFlush(mode) ==
    /\ ~out.fh.read_only
    /\ FileStep(BufferedFile_flush_some(out.fh, mode), <<>>, "flush")

InitFile ==
    /\ junk \in JunkBytes
    /\ SstIdle
    /\ srcs = <<>> /\ offset = <<>> /\ compactor = FALSE
    /\ inputs = <<>> /\ offs = <<>> /\ cur = <<>>
    /\ pc = "idle" /\ loc = <<>> /\ err = "none"
    /\ resolved = <<>> /\ drv = NoDriver
    /\ out = [fh |-> BufferedFile_open(junk), passed |-> <<>>]

NextFile ==
    \/ \E mode \in Modes : FileWriteCh(mode)
    \/ \E len \in SliceLens, ms \in [1..MaxAnswers -> Modes] : FileWrite(len, ms)
    \/ \E mode \in Modes : FileFlush(mode)

SpecFile == InitFile /\ [][NextFile]_vars

-----------------------------------------------------------------------------
(* SSIndex on its own (SpecIndex): maybe_add_entry is called with keys and *)
(* increasing offsets, as SSTable::add calls it.  out holds the index      *)
(* (index) and the (key, ptr) pairs it was called with (app).              *)

\* The number of maybe_add_entry calls made on one index.
MaxAppends == 4
\* The number of blocks the offsets passed to maybe_add_entry lie in.
MaxBlocks == 4
\* The offsets passed: the first and the last byte of each block.
IndexOffsets ==
    {b * INDEXBLOCK + r : b \in 0..(MaxBlocks - 1), r \in {0, INDEXBLOCK - 1}}
IndexKeys == {<<97>>, <<97, 98>>}

\* The offset of the last call, -1 before the first.
LastPtr == IF out.app = <<>> THEN -1 ELSE out.app[Len(out.app)].ptr

\* index.maybe_add_entry(key, ptr)
IndexAdd(key, ptr) ==
    /\ Len(out.app) < MaxAppends
    /\ ptr > LastPtr
    /\ out' = [index |-> SSIndex_maybe_add_entry(out.index, key, ptr),
               app |-> Append(out.app, [key |-> key, ptr |-> ptr])]
    /\ UNCHANGED <<junk, sstVars, srcs, offset, compactor, inputs, offs, cur,
                   pc, loc, err, resolved, drv>>

InitIndex ==
    /\ junk \in JunkBytes
    /\ SstIdle
    /\ srcs = <<>> /\ offset = <<>> /\ compactor = FALSE
    /\ inputs = <<>> /\ offs = <<>> /\ cur = <<>>
    /\ pc = "idle" /\ loc = <<>> /\ err = "none"
    /\ resolved = <<>> /\ drv = NoDriver
    /\ out = [index |-> SSIndex_new, app |-> <<>>]

NextIndex == \E key \in IndexKeys, ptr \in IndexOffsets : IndexAdd(key, ptr)

SpecIndex == InitIndex /\ [][NextIndex]_vars

-----------------------------------------------------------------------------
(* Packing helpers and key classes of the postlist table.                  *)

\* unpack_uint into a 32-bit Xapian::docid / termcount / doccount: fails
\* when out of data or when the value does not fit.  The document ids and
\* counts of the model stay far below 2^28, so no sum wraps.
unpack_uint32(s) ==
    LET u == unpack_uint(s)
    IN  IF u.ok /\ u.val < Huge THEN u
        ELSE [ok |-> FALSE, val |-> 0, rest |-> <<>>]

RECURSIVE BigEndian(_)
BigEndian(v) == IF v < 256 THEN <<v>> ELSE Append(BigEndian(v \div 256), v % 256)

RECURSIVE BigEndianVal(_)
BigEndianVal(s) ==
    IF s = <<>> THEN 0 ELSE 256 * BigEndianVal(Take(s, Len(s) - 1)) + s[Len(s)]

\* pack_uint_preserving_sort: a length byte, then the value's bytes, high
\* byte first.
pack_uint_preserving_sort(v) == <<Len(BigEndian(v))>> \o BigEndian(v)

\* unpack_uint_preserving_sort into a 32-bit docid (2^28 and more read as
\* Huge).
unpack_uint_preserving_sort(s) ==
    IF s = <<>> \/ s[1] > 4 \/ Len(s) - 1 < s[1]
    THEN [ok |-> FALSE, val |-> 0, rest |-> <<>>]
    ELSE [ok |-> TRUE,
          val |-> IF s[1] = 4 /\ s[2] >= 16 THEN Huge
                  ELSE BigEndianVal(SubSeq(s, 2, s[1] + 1)),
          rest |-> Drop(s, s[1] + 1)]

\* pack_string_preserving_sort(value, last): each zero byte is followed by
\* 0xff, and a zero byte ends the string unless it is the last item.
RECURSIVE EscapeZeros(_)
EscapeZeros(v) ==
    IF v = <<>> THEN <<>>
    ELSE (IF v[1] = 0 THEN <<0, 255>> ELSE <<v[1]>>) \o EscapeZeros(Drop(v, 1))

pack_string_preserving_sort(value, last) ==
    EscapeZeros(value) \o (IF last THEN <<>> ELSE <<0>>)

\* unpack_string_preserving_sort: up to a zero byte that 0xff does not
\* follow, or to the end of the input; it never fails.
RECURSIVE unpack_string_preserving_sort(_)
unpack_string_preserving_sort(s) ==
    IF s = <<>> THEN [val |-> <<>>, rest |-> <<>>]
    ELSE IF s[1] = 0 /\ (Len(s) = 1 \/ s[2] # 255)
    THEN [val |-> <<>>, rest |-> Drop(s, 1)]
    ELSE LET k == IF s[1] = 0 THEN 2 ELSE 1
             r == unpack_string_preserving_sort(Drop(s, k))
         IN  [val |-> <<s[1]>> \o r.val, rest |-> r.rest]

\* pack_string: the packed length, then the bytes.
pack_string(v) == pack_uint(Len(v)) \o v

unpack_string(s) ==
    LET u == unpack_uint(s)
    IN  IF ~u.ok \/ u.val > Len(u.rest)
        THEN [ok |-> FALSE, val |-> <<>>, rest |-> <<>>]
        ELSE [ok |-> TRUE, val |-> Take(u.rest, u.val), rest |-> Drop(u.rest, u.val)]

\* pack_glass_postlist_key(term): the key of a term's initial chunk.
pack_glass_postlist_key_initial(term) ==
    IF term = <<>> THEN <<0, 224>> ELSE pack_string_preserving_sort(term, TRUE)

\* pack_glass_postlist_key(term, did): the key of a later chunk.
pack_glass_postlist_key(term, did) ==
    IF term = <<>> THEN <<0, 224>> \o pack_uint_preserving_sort(did)
    ELSE pack_string_preserving_sort(term, FALSE) \o pack_uint_preserving_sort(did)

is_user_metadata_key(key) == Len(key) > 1 /\ key[1] = 0 /\ key[2] = 192
is_valuestats_key(key) == Len(key) > 1 /\ key[1] = 0 /\ key[2] = 208
is_valuechunk_key(key) == Len(key) > 1 /\ key[1] = 0 /\ key[2] = 216
is_doclenchunk_key(key) == Len(key) > 1 /\ key[1] = 0 /\ key[2] = 224

encode_valuestats(freq, lbound, ubound) ==
    pack_uint(freq) \o pack_string(lbound)
        \o (IF lbound # ubound THEN ubound ELSE <<>>)

-----------------------------------------------------------------------------
(* PostlistCursor: the two specialisations share the body of next().       *)

NoCursor == [st |-> "none", key |-> <<>>, tag |-> <<>>, firstdid |-> 0,
             tf |-> 0, cf |-> 0]

\* "key.erase(tmp)" whatever the key.
NonInitialKey_KeepZero(key, tmp) == Take(key, tmp)
\* "if (is_doclenchunk_key(key)) key.erase(tmp); else key.erase(tmp - 1);"
NonInitialKey(key, tmp) ==
    IF is_doclenchunk_key(key) THEN Take(key, tmp) ELSE Take(key, tmp - 1)

\* What next() makes of the (key, tag) it read: every chunk is put into
\* the form of a non-initial chunk, document ids are shifted by off.
\* firstdid is the member as the previous call left it.
Normalise(key, tag, off, firstdid) ==
    LET plain == [ok |-> TRUE, key |-> key, tag |-> tag, firstdid |-> firstdid,
                  tf |-> 0, cf |-> 0]
        bad == [ok |-> FALSE, key |-> key, tag |-> tag, firstdid |-> firstdid,
                tf |-> 0, cf |-> 0]
        slot == unpack_uint32(Drop(key, 2))
        vdid == unpack_uint_preserving_sort(slot.rest)
        d == IF is_doclenchunk_key(key) THEN Drop(key, 2)
             ELSE unpack_string_preserving_sort(key).rest
        tmp == Len(key) - Len(d)
        h1 == unpack_uint32(tag)
        h2 == unpack_uint32(h1.rest)
        h3 == unpack_uint32(h2.rest)
        kdid == unpack_uint_preserving_sort(d)
    IN  IF is_user_metadata_key(key) \/ is_valuestats_key(key) THEN plain
        ELSE IF is_valuechunk_key(key)
        THEN IF ~slot.ok \/ ~vdid.ok THEN bad
             ELSE [plain EXCEPT !.key = <<0, 216>> \o pack_uint(slot.val)
                       \o pack_uint_preserving_sort(vdid.val + off)]
        ELSE IF d = <<>>
        THEN \* an initial chunk: the header moves from the tag to the cursor
             IF ~h1.ok \/ ~h2.ok \/ ~h3.ok THEN bad
             ELSE [ok |-> TRUE, key |-> key, tag |-> h3.rest,
                   firstdid |-> h3.val + 1 + off,
                   tf |-> h1.val, cf |-> h2.val]
        ELSE \* a later chunk: the document id moves from the key to the cursor
             IF ~kdid.ok \/ kdid.rest # <<>> THEN bad
             ELSE [ok |-> TRUE,
                   key |-> NonInitialKey(key, tmp),
                   tag |-> tag,
                   firstdid |-> kdid.val + off,
                   tf |-> 0, cf |-> 0]

\* An input table of merge_postlists: a GlassTable read through its cursor
\* (recs in key order, pos of them read), or an SSTable read by read_item.
GlassInput(recs) == [kind |-> "glass", recs |-> recs, pos |-> 0]
SSTableInput(t) == [kind |-> "sst", t |-> t]

\* in->empty()
Table_empty(inp) ==
    IF inp.kind = "glass" THEN inp.recs = <<>>
    ELSE inp.t.fh.buf_end = 0 /\ Len(inp.t.fh.file) = 0

\* What the cursor gets from SSTable::read_item: the item, or the
\* exception, or abort() on a compressed item.
Table_item(inp, r) ==
    [inp |-> [inp EXCEPT !.t = r.t],
     ok |-> r.ok /\ ~r.item.compressed,
     key |-> r.item.key, tag |-> r.item.val,
     err |-> IF r.err # "none" THEN r.err
             ELSE IF r.ok /\ r.item.compressed THEN "abort"
             ELSE "none"]

\* GlassCursor::next() with read_tag(), or SSTable::read_item.
Table_next(inp) ==
    IF inp.kind = "glass"
    THEN IF inp.pos < Len(inp.recs)
         THEN [inp |-> [inp EXCEPT !.pos = @ + 1], ok |-> TRUE,
               key |-> inp.recs[inp.pos + 1].key,
               tag |-> inp.recs[inp.pos + 1].tag, err |-> "none"]
         ELSE [inp |-> inp, ok |-> FALSE, key |-> <<>>, tag |-> <<>>, err |-> "none"]
    ELSE Table_item(inp, SSTable_read_item(inp.t))

\* next() once the record is normalised to n.
PostlistCursor_set(r, c, n) ==
    IF ~n.ok
    THEN [inp |-> r.inp, cur |-> c, ok |-> FALSE, err |-> "DatabaseCorruptError"]
    ELSE [inp |-> r.inp,
          cur |-> [c EXCEPT !.key = n.key, !.tag = n.tag,
                            !.firstdid = n.firstdid, !.tf = n.tf, !.cf = n.cf],
          ok |-> TRUE, err |-> "none"]

\* next() once the table gave r.
PostlistCursor_read(r, c, off) ==
    IF r.err # "none" THEN [inp |-> r.inp, cur |-> c, ok |-> FALSE, err |-> r.err]
    ELSE IF ~r.ok THEN [inp |-> r.inp, cur |-> c, ok |-> FALSE, err |-> "none"]
    ELSE PostlistCursor_set(r, c, Normalise(r.key, r.tag, off, c.firstdid))

\* PostlistCursor::next()
PostlistCursor_next(inp, c, off) == PostlistCursor_read(Table_next(inp), c, off)

\* The comparison without the tie-break on firstdid.
PostlistCursorGt_KeyOnly(a, b) == StrLess(b.key, a.key)

\* PostlistCursorGt: a's key is greater, or the keys are equal and a's
\* firstdid is greater.
PostlistCursorGt(a, b) ==
    IF StrLess(b.key, a.key) THEN TRUE
    ELSE IF a.key # b.key THEN FALSE
    ELSE a.firstdid > b.firstdid

-----------------------------------------------------------------------------
(* merge_postlists.  One action is one iteration of one of its loops; the  *)
(* heap is the set of cursors with st = "heap", and top() may be any       *)
(* cursor that PostlistCursorGt puts after no other.                       *)

\* Compactor::resolve_duplicate_metadata(key, num_tags, tags): the
\* application's callback; here it returns a tag that tells the key's
\* tags and their order.
RECURSIVE Concat(_)
Concat(ss) == IF ss = <<>> THEN <<>> ELSE ss[1] \o Concat(Drop(ss, 1))

resolve_duplicate_metadata(key, tags) == <<82, Len(tags)>> \o Concat(tags)

\* The locals of merge_postlists on entry: last_key, the metadata tags,
\* freq, lbound and ubound, tf and cf, and the posting tags (the second
\* vector named tags, here ptags).
NoLocals == [last_key |-> <<>>, tags |-> <<>>, freq |-> 0, lbound |-> <<>>,
             ubound |-> <<>>, tf |-> 0, cf |-> 0, ptags |-> <<>>]

\* The state a step of merge_postlists works on.
Machine == [inputs |-> inputs, cur |-> cur, loc |-> loc, out |-> out,
            resolved |-> resolved, err |-> "none"]

Heap(c) == {i \in DOMAIN c : c[i].st = "heap"}

\* pq.top(): a cursor that is greater than no other.
Tops(c) == {i \in Heap(c) : \A j \in Heap(c) : ~PostlistCursorGt(c[i], c[j])}

\* out->add(key, tag)
Out_add(m, key, tag) ==
    IF m.err # "none" THEN m
    ELSE LET r == SSTable_add(m.out.t, key, tag, FALSE)
         IN  IF r.err # "none" THEN [m EXCEPT !.err = r.err]
             ELSE [m EXCEPT !.out = [t |-> r.t,
                                     recs |-> Append(m.out.recs,
                                                     [key |-> key, tag |-> tag])]]

\* "if (cur->next()) pq.push(cur);" without the else branch: a cursor that
\* is at its end is dropped and never deleted.
Cursor_keep_Leak(m, i, r) ==
    [m EXCEPT !.inputs[i] = r.inp,
              !.cur[i] = IF r.err # "none" THEN @
                         ELSE IF r.ok THEN r.cur
                         ELSE [@ EXCEPT !.st = "leaked"],
              !.err = r.err]

\* "if (cur->next()) pq.push(cur); else delete cur;" once next() gave r.
Cursor_keep(m, i, r) ==
    [m EXCEPT !.inputs[i] = r.inp,
              !.cur[i] = IF r.err # "none" THEN @
                         ELSE IF r.ok THEN r.cur
                         ELSE [@ EXCEPT !.st = "dead"],
              !.err = r.err]

\* "if (cur->next()) pq.push(cur); else delete cur;" after pq.pop()
Cursor_advance(m, i) ==
    IF m.err # "none" THEN m
    ELSE Cursor_keep(m, i, PostlistCursor_next(m.inputs[i], m.cur[i], offs[i]))

\* "pq.push(new cursor_type(in, *offset))": the constructor calls next()
\* and the cursor is pushed whatever next() returned (r).
Cursor_push(m, i, r) ==
    [m EXCEPT !.inputs[i] = r.inp,
              !.cur[i] = IF r.ok THEN r.cur ELSE [NoCursor EXCEPT !.st = "heap"],
              !.err = r.err]

\* The loop over [b, e): a cursor for every table that is not empty.
RECURSIVE OpenCursors(_, _)
OpenCursors(m, i) ==
    IF i > Len(m.inputs) \/ m.err # "none" THEN m
    ELSE IF Table_empty(m.inputs[i]) THEN OpenCursors(m, i + 1)
    ELSE OpenCursors(
             Cursor_push(m, i,
                 PostlistCursor_next(m.inputs[i], [NoCursor EXCEPT !.st = "heap"],
                                     offs[i])),
             i + 1)

\* The end of a step: the variables take the values of m, and an exception
\* leaves merge_postlists (its locals and cursors are left as they were).
Step(m, next) ==
    /\ inputs' = m.inputs
    /\ out' = m.out
    /\ resolved' = m.resolved
    /\ err' = m.err
    /\ IF m.err = "none"
       THEN cur' = m.cur /\ loc' = m.loc /\ pc' = next
       ELSE cur' = cur /\ loc' = loc /\ pc' = "failed"
    /\ UNCHANGED <<junk, sstVars, srcs, offset, compactor, offs, drv>>

\* The last of the tags.
FirstTag_Last(tags) == tags[Len(tags)]
\* "tags[0]"
FirstTag(tags) == tags[1]

NeedsResolver_Any(tags) == tags # <<>> /\ compactor

\* "tags.size() > 1 && compactor"
NeedsResolver(tags) == Len(tags) > 1 /\ compactor

\* "if (!tags.empty()) { ... }" of the metadata loop: the tag the resolver
\* returns when there are several tags and a compactor, tags[0] otherwise.
EmitMetadata(m) ==
    IF m.loc.tags = <<>> THEN m
    ELSE IF NeedsResolver(m.loc.tags)
    THEN Out_add([m EXCEPT !.resolved =
                      Append(@, [call |-> drv.calls, key |-> m.loc.last_key,
                                 tags |-> m.loc.tags])],
                 m.loc.last_key,
                 resolve_duplicate_metadata(m.loc.last_key, m.loc.tags))
    ELSE Out_add(m, m.loc.last_key, FirstTag(m.loc.tags))

\* The cursors are made and pushed.
MergeOpen ==
    /\ pc = "start"
    /\ Step(OpenCursors(Machine, 1), "meta")

\* One iteration of "Merge user metadata".
MetaStep(i) ==
    /\ pc = "meta"
    /\ i \in Tops(cur)
    /\ is_user_metadata_key(cur[i].key)
    /\ LET key == cur[i].key
           m1 == IF key # loc.last_key
                 THEN [EmitMetadata(Machine) EXCEPT !.loc.tags = <<>>,
                                                    !.loc.last_key = key]
                 ELSE Machine
           m2 == [m1 EXCEPT !.loc.tags = Append(@, cur[i].tag)]
       IN  Step(Cursor_advance(m2, i), "meta")

\* The metadata loop ends: the heap is empty or its top is no metadata.
MetaEnd ==
    /\ pc = "meta"
    /\ \A i \in Tops(cur) : ~is_user_metadata_key(cur[i].key)
    /\ Step([EmitMetadata(Machine) EXCEPT !.loc.tags = <<>>], "stats")

\* The frequency and bounds of a valuestats tag: unpack_uint, unpack_string,
\* and the rest of the tag as the upper bound (the lower bound when nothing
\* is left).  When the tag runs out, unpack_uint and unpack_string set the
\* position to NULL and "*pos == 0" reads through it: "undefined".
ParseStats(tag) ==
    LET uf == unpack_uint(tag)
        ul == unpack_string(uf.rest)
        bad(e) == [err |-> e, f |-> 0, l |-> <<>>, u |-> <<>>]
    IN  IF ~uf.ok THEN bad("undefined")
        ELSE IF uf.val >= Huge
        THEN IF uf.rest = <<>> \/ uf.rest[1] = 0
             THEN bad("DatabaseCorruptError") ELSE bad("RangeError")
        ELSE IF ~ul.ok THEN bad("undefined")
        ELSE [err |-> "none", f |-> uf.val, l |-> ul.val,
              u |-> IF ul.rest = <<>> THEN ul.val ELSE ul.rest]

\* "if (freq == 0) { freq = f; ... } else { freq += f; ... }" without the
\* comparison of the lower bounds.
FoldStats_NoMin(l, f, lo, up) ==
    IF l.freq = 0 THEN [l EXCEPT !.freq = f, !.lbound = lo, !.ubound = up]
    ELSE [l EXCEPT !.freq = @ + f,
                   !.ubound = IF StrLess(@, up) THEN up ELSE @]
\* "if (freq == 0) { freq = f; ... } else { freq += f; ... }"
FoldStats(l, f, lo, up) ==
    IF l.freq = 0 THEN [l EXCEPT !.freq = f, !.lbound = lo, !.ubound = up]
    ELSE [l EXCEPT !.freq = @ + f,
                   !.lbound = IF StrLess(lo, @) THEN lo ELSE @,
                   !.ubound = IF StrLess(@, up) THEN up ELSE @]

\* "if (freq) { out->add(last_key, encode_valuestats(...)); }"
EmitValuestats(m) ==
    IF m.loc.freq = 0 THEN m
    ELSE Out_add(m, m.loc.last_key,
                 encode_valuestats(m.loc.freq, m.loc.lbound, m.loc.ubound))

\* One iteration of "Merge valuestats".
StatsStep(i) ==
    /\ pc = "stats"
    /\ i \in Tops(cur)
    /\ is_valuestats_key(cur[i].key)
    /\ LET key == cur[i].key
           m1 == IF key # loc.last_key
                 THEN [EmitValuestats(Machine) EXCEPT !.loc.freq = 0,
                                                      !.loc.last_key = key]
                 ELSE Machine
           s == ParseStats(cur[i].tag)
           m2 == IF m1.err # "none" THEN m1
                 ELSE IF s.err # "none" THEN [m1 EXCEPT !.err = s.err]
                 ELSE [m1 EXCEPT !.loc = FoldStats(@, s.f, s.l, s.u)]
       IN  Step(Cursor_advance(m2, i), "stats")

\* The valuestats loop ends.
StatsEnd ==
    /\ pc = "stats"
    /\ \A i \in Tops(cur) : ~is_valuestats_key(cur[i].key)
    /\ Step(EmitValuestats(Machine), "chunks")

\* One iteration of "Merge valuestream chunks".
ChunkStep(i) ==
    /\ pc = "chunks"
    /\ i \in Tops(cur)
    /\ is_valuechunk_key(cur[i].key)
    /\ Step(Cursor_advance(Out_add(Machine, cur[i].key, cur[i].tag), i), "chunks")

\* The valuestream loop ends; tf, cf and the posting tags start empty.
ChunkEnd ==
    /\ pc = "chunks"
    /\ \A i \in Tops(cur) : ~is_valuechunk_key(cur[i].key)
    /\ Step([Machine EXCEPT !.loc.tf = 0, !.loc.cf = 0, !.loc.ptags = <<>>],
            "posts")

\* The tag with the flag its source gave it.
SetFlag_Keep(tag, last) == tag

\* "tag[0] = last ? '1' : '0'"; on an empty tag the write goes to the
\* terminator and the string stays empty.
SetFlag(tag, last) ==
    IF tag = <<>> THEN tag
    ELSE <<IF last THEN 49 ELSE 48>> \o Drop(tag, 1)

\* pack_uint(first_tag, tags[0].first - 1) on a 32-bit docid.
PackDidBefore(first) ==
    IF first = 0 THEN <<255, 255, 255, 255, 15>> ELSE pack_uint(first - 1)

\* "while (++i != tags.end())": the chunks after the first, each under the
\* key pack_glass_postlist_key(term, i->first).
RECURSIVE EmitLaterChunks(_, _, _, _)
EmitLaterChunks(m, term, tags, i) ==
    IF i > Len(tags) THEN m
    ELSE EmitLaterChunks(
             Out_add(m, pack_glass_postlist_key(term, tags[i].first),
                     SetFlag(tags[i].second, i = Len(tags))),
             term, tags, i + 1)

\* "if (!tags.empty()) { ... }" of the posting loop: the initial chunk
\* with the header of tf, cf and the first docid, then the later chunks.
EmitPostlist(m) ==
    IF m.loc.ptags = <<>> THEN m
    ELSE LET tags == m.loc.ptags
             last_key == m.loc.last_key
             first_tag == pack_uint(m.loc.tf) \o pack_uint(m.loc.cf)
                              \o PackDidBefore(tags[1].first)
                              \o SetFlag(tags[1].second, Len(tags) = 1)
             m1 == Out_add(m, last_key, first_tag)
             u == unpack_string_preserving_sort(last_key)
             term == IF is_doclenchunk_key(last_key) THEN <<>> ELSE u.val
             m2 == IF m1.err = "none" /\ ~is_doclenchunk_key(last_key)
                       /\ u.rest # <<>>
                   THEN [m1 EXCEPT !.err = "DatabaseCorruptError"]
                   ELSE m1
         IN  EmitLaterChunks(m2, term, tags, 2)

\* "tf = cf = 0" without effect.
ResetCounts_Keep(l) == l
\* "tf = cf = 0" when the key changes.
ResetCounts(l) == [l EXCEPT !.tf = 0, !.cf = 0]

\* One iteration of the posting loop with a cursor popped.
PostStep(i) ==
    /\ pc = "posts"
    /\ i \in Tops(cur)
    /\ LET c == cur[i]
           m1 == IF c.key # loc.last_key
                 THEN [EmitPostlist(Machine) EXCEPT
                          !.loc = [ResetCounts(@) EXCEPT !.ptags = <<>>,
                                                         !.last_key = c.key]]
                 ELSE Machine
           m2 == [m1 EXCEPT !.loc.tf = @ + c.tf, !.loc.cf = @ + c.cf,
                            !.loc.ptags = Append(@, [first |-> c.firstdid,
                                                     second |-> c.tag])]
       IN  Step(Cursor_advance(m2, i), "posts")

\* The iteration of the posting loop with the heap empty: what is left is
\* written and merge_postlists returns.
PostEnd ==
    /\ pc = "posts"
    /\ Heap(cur) = {}
    /\ Step([EmitPostlist(Machine) EXCEPT !.loc.ptags = <<>>], "done")

-----------------------------------------------------------------------------
(* The postlist tables of the source databases, as the glass backend       *)
(* writes them: records in key order, document ids from 1.                 *)

\* The number of sources of a single merge_postlists call (SpecMerge).
MaxInputs == 3
\* The document ids a source may use: source i gets the offset
\* (i - 1) * DocsPerSource.
DocsPerSource == 4

MetaRec(name, tag) == [key |-> <<0, 192>> \o name, tag |-> tag]

StatsRec(slot, f, l, u) ==
    [key |-> <<0, 208>> \o pack_uint(slot), tag |-> encode_valuestats(f, l, u)]

ChunkRec(slot, did, body) ==
    [key |-> <<0, 216>> \o pack_uint(slot) \o pack_uint_preserving_sort(did),
     tag |-> body]

\* The initial chunk of a term (of the document lengths when term is
\* empty): the header of tf, cf and firstdid - 1, the flag '1' on the last
\* chunk and '0' otherwise, and the body.
PostInit(term, tf, cf, did, last, body) ==
    [key |-> pack_glass_postlist_key_initial(term),
     tag |-> pack_uint(tf) \o pack_uint(cf) \o pack_uint(did - 1)
                 \o <<IF last THEN 49 ELSE 48>> \o body]

\* A later chunk of a term.
PostCont(term, did, last, body) ==
    [key |-> pack_glass_postlist_key(term, did),
     tag |-> <<IF last THEN 49 ELSE 48>> \o body]

SrcEmpty == <<>>

SrcA == << MetaRec(<<107>>, <<88>>),
           StatsRec(0, 1, <<98>>, <<98>>),
           ChunkRec(0, 1, <<7>>),
           PostInit(<<>>, 1, 3, 1, TRUE, <<3>>),
           PostInit(<<116>>, 1, 2, 1, TRUE, <<5>>) >>

SrcB == << MetaRec(<<106>>, <<80>>),
           MetaRec(<<107>>, <<89>>),
           StatsRec(0, 2, <<97>>, <<99>>),
           PostInit(<<>>, 2, 5, 1, FALSE, <<2>>),
           PostCont(<<>>, 3, TRUE, <<3>>),
           PostInit(<<116>>, 2, 3, 1, FALSE, <<6>>),
           PostCont(<<116>>, 3, TRUE, <<7>>),
           PostInit(<<117>>, 1, 1, 2, TRUE, <<>>) >>

SrcC == << MetaRec(<<109>>, <<90>>),
           StatsRec(0, 1, <<100>>, <<100>>),
           StatsRec(1, 3, <<97>>, <<98>>),
           ChunkRec(1, 2, <<8>>),
           PostInit(<<117>>, 3, 4, 1, TRUE, <<9>>) >>

Catalogue == {SrcEmpty, SrcA, SrcB, SrcC}

-----------------------------------------------------------------------------
(* SpecMerge: one merge_postlists call over one to MaxInputs source tables *)
(* into a new SSTable, as compact() makes it without multipass.            *)

InitMerge ==
    /\ junk \in JunkBytes
    /\ SstIdle
    /\ \E n \in 1..MaxInputs : srcs \in [1..n -> Catalogue]
    /\ offset = [i \in DOMAIN srcs |-> (i - 1) * DocsPerSource]
    /\ compactor \in BOOLEAN
    /\ inputs = [i \in DOMAIN srcs |-> GlassInput(srcs[i])]
    /\ offs = offset
    /\ cur = [i \in DOMAIN srcs |-> NoCursor]
    /\ pc = "start"
    /\ loc = NoLocals
    /\ out = [t |-> SSTable_new(junk), recs |-> <<>>]
    /\ err = "none"
    /\ resolved = <<>>
    /\ drv = NoDriver

NextMerge ==
    \/ MergeOpen
    \/ \E i \in DOMAIN cur : MetaStep(i)
    \/ MetaEnd
    \/ \E i \in DOMAIN cur : StatsStep(i)
    \/ StatsEnd
    \/ \E i \in DOMAIN cur : ChunkStep(i)
    \/ ChunkEnd
    \/ \E i \in DOMAIN cur : PostStep(i)
    \/ PostEnd

SpecMerge == InitMerge /\ [][NextMerge]_vars

\* merge_postlists called with the offsets in the order of the sources or
\* in the opposite order: the docids of a later source are then below
\* those of an earlier one.
InitReversed ==
    /\ junk \in JunkBytes
    /\ SstIdle
    /\ \E n \in 1..MaxInputs : srcs \in [1..n -> Catalogue]
    /\ \E reversed \in BOOLEAN :
           offset = [i \in DOMAIN srcs |->
                        IF reversed THEN (Len(srcs) - i) * DocsPerSource
                        ELSE (i - 1) * DocsPerSource]
    /\ compactor = FALSE
    /\ inputs = [i \in DOMAIN srcs |-> GlassInput(srcs[i])]
    /\ offs = offset
    /\ cur = [i \in DOMAIN srcs |-> NoCursor]
    /\ pc = "start"
    /\ loc = NoLocals
    /\ out = [t |-> SSTable_new(junk), recs |-> <<>>]
    /\ err = "none"
    /\ resolved = <<>>
    /\ drv = NoDriver

SpecReversed == InitReversed /\ [][NextMerge]_vars

-----------------------------------------------------------------------------
(* multimerge_postlists over more than three source tables.  Before it     *)
(* runs, SpecMulti merges the same sources in one merge_postlists call, as *)
(* compact() does without multipass, and keeps the records written in      *)
(* drv.ref.                                                                *)

\* The numbers of source tables SpecMulti takes.
CascadeSizes == {4, 5, 8}
\* The source tables after the first MaxLoaded are empty.
MaxLoaded == 3

SrcM1 == << MetaRec(<<107>>, <<88>>),
            StatsRec(0, 1, <<98>>, <<98>>),
            PostInit(<<116>>, 1, 1, 1, TRUE, <<>>) >>

SrcM2 == << MetaRec(<<107>>, <<89>>),
            ChunkRec(0, 1, <<7>>) >>

MultiCatalogue == {SrcEmpty, SrcM1, SrcM2}

\* "newoff.resize(n)": n offsets of 0.
Zeros(n) == [x \in 1..n |-> 0]

\* Groups of three from the front, with what is left at the end.
GroupEnd_Threes(i, size) == IF i + 3 <= size THEN i + 3 ELSE size

\* "j = i + 2; if (j == size - 1) ++j;"
GroupEnd(i, size) == IF i + 2 = size - 1 THEN i + 3 ELSE i + 2

\* tmp[k] after "delete tmp[k]; tmp[k] = NULL;"
NullTable == [null |-> TRUE]

\* A call merge_postlists(compactor, o, off, b, e) is entered.
CallMerge(ins, off) ==
    /\ inputs' = ins
    /\ offs' = off
    /\ cur' = [x \in DOMAIN ins |-> NoCursor]
    /\ loc' = NoLocals
    /\ out' = [t |-> SSTable_new(junk), recs |-> <<>>]
    /\ pc' = "start"
    /\ err' = "none"

InitMulti ==
    /\ junk \in JunkBytes
    /\ SstIdle
    /\ \E n \in CascadeSizes : srcs \in [1..n -> MultiCatalogue]
    /\ \A i \in DOMAIN srcs : i > MaxLoaded => srcs[i] = SrcEmpty
    /\ offset = [i \in DOMAIN srcs |-> (i - 1) * DocsPerSource]
    /\ compactor \in BOOLEAN
    /\ inputs = [i \in DOMAIN srcs |-> GlassInput(srcs[i])]
    /\ offs = offset
    /\ cur = [i \in DOMAIN srcs |-> NoCursor]
    /\ pc = "start"
    /\ loc = NoLocals
    /\ out = [t |-> SSTable_new(junk), recs |-> <<>>]
    /\ err = "none"
    /\ resolved = <<>>
    /\ drv = [NoDriver EXCEPT !.at = "single", !.off = offset]

\* The single merge_postlists call has returned; multimerge_postlists is
\* entered with the same sources and offsets.
SingleReturn ==
    /\ drv.at = "single" /\ pc = "done"
    /\ drv' = [drv EXCEPT !.at = "first", !.ref = out.recs, !.i = 0, !.c = 0]
    /\ pc' = "idle"
    /\ UNCHANGED <<junk, sstVars, srcs, offset, compactor, inputs, offs, cur,
                   loc, out, err, resolved>>

\* tmptab->flush_db(); tmptab->commit(1, &root_info) on the table out.t.
CommitTmp == SSTable_commit(SSTable_flush_db(out.t), RootInfo_init(65536, 0))

\* The first round: a new temporary table and the merge of the sources
\* i .. j-1 into it.
FirstRoundMerge ==
    /\ drv.at = "first" /\ pc = "idle"
    /\ drv.i < Len(srcs)
    /\ LET j == GroupEnd(drv.i, Len(srcs))
       IN  /\ CallMerge([x \in 1..(j - drv.i) |-> GlassInput(srcs[drv.i + x])],
                        [x \in 1..(j - drv.i) |-> drv.off[drv.i + x]])
           /\ drv' = [drv EXCEPT !.j = j, !.calls = @ + 1]
    /\ UNCHANGED <<junk, sstVars, srcs, offset, compactor, resolved>>

\* The first round after a merge: tmp.push_back, flush_db, commit; in a
\* build with assertions AssertRel(root_info.get_blocksize(),==,65536)
\* follows, in a build without them nothing.
FirstRoundCommit(asserts) ==
    /\ drv.at = "first" /\ pc = "done"
    /\ root_info' = CommitTmp.ri
    /\ IF CommitTmp.err # "none"
       THEN pc' = "failed" /\ err' = CommitTmp.err /\ drv' = drv
       ELSE IF asserts /\ CommitTmp.ri.blocksize # 65536
       THEN /\ pc' = "failed" /\ err' = "AssertionError"
            /\ drv' = [drv EXCEPT !.tmp = Append(@, CommitTmp.t)]
       ELSE /\ pc' = "idle" /\ err' = err
            /\ drv' = [drv EXCEPT !.tmp = Append(@, CommitTmp.t), !.i = drv.j]
    /\ UNCHANGED <<junk, tbl, accepted, items, call, proto, srcs, offset,
                   compactor, inputs, offs, cur, loc, out, resolved>>

\* The first round ends: swap(off, newoff); ++c.
FirstRoundEnd ==
    /\ drv.at = "first" /\ pc = "idle"
    /\ drv.i >= Len(srcs)
    /\ drv' = [drv EXCEPT !.at = "later", !.off = Zeros(Len(srcs) \div 2),
                          !.c = @ + 1, !.i = 0]
    /\ UNCHANGED <<junk, sstVars, srcs, offset, compactor, inputs, offs, cur,
                   pc, loc, out, err, resolved>>

\* A later round ("while (tmp.size() > 3)"): a new temporary table and the
\* merge of the temporary tables i .. j-1 into it.
LaterRoundMerge ==
    /\ drv.at = "later" /\ pc = "idle"
    /\ Len(drv.tmp) > 3 /\ drv.i < Len(drv.tmp)
    /\ LET j == GroupEnd(drv.i, Len(drv.tmp))
       IN  /\ CallMerge([x \in 1..(j - drv.i) |-> SSTableInput(drv.tmp[drv.i + x])],
                        [x \in 1..(j - drv.i) |-> drv.off[drv.i + x]])
           /\ drv' = [drv EXCEPT !.j = j, !.calls = @ + 1]
    /\ UNCHANGED <<junk, sstVars, srcs, offset, compactor, resolved>>

\* A later round after a merge: the tables merged are deleted (c > 0),
\* then tmpout.push_back, flush_db, commit and the assertion.
LaterRoundCommit(asserts) ==
    /\ drv.at = "later" /\ pc = "done"
    /\ root_info' = CommitTmp.ri
    /\ LET gone == [k \in DOMAIN drv.tmp |->
                       IF drv.c > 0 /\ k > drv.i /\ k <= drv.j
                       THEN NullTable ELSE drv.tmp[k]]
       IN  IF CommitTmp.err # "none"
           THEN /\ pc' = "failed" /\ err' = CommitTmp.err
                /\ drv' = [drv EXCEPT !.tmp = gone]
           ELSE IF asserts /\ CommitTmp.ri.blocksize # 65536
           THEN /\ pc' = "failed" /\ err' = "AssertionError"
                /\ drv' = [drv EXCEPT !.tmp = gone,
                                      !.tmpout = Append(@, CommitTmp.t)]
           ELSE /\ pc' = "idle" /\ err' = err
                /\ drv' = [drv EXCEPT !.tmp = gone,
                                      !.tmpout = Append(@, CommitTmp.t),
                                      !.i = drv.j]
    /\ UNCHANGED <<junk, tbl, accepted, items, call, proto, srcs, offset,
                   compactor, inputs, offs, cur, loc, out, resolved>>

\* A later round ends: swap(tmp, tmpout); swap(off, newoff); ++c.
LaterRoundEnd ==
    /\ drv.at = "later" /\ pc = "idle"
    /\ Len(drv.tmp) > 3 /\ drv.i >= Len(drv.tmp)
    /\ drv' = [drv EXCEPT !.tmp = drv.tmpout, !.tmpout = <<>>,
                          !.off = Zeros(Len(drv.tmp) \div 2),
                          !.c = @ + 1, !.i = 0]
    /\ UNCHANGED <<junk, sstVars, srcs, offset, compactor, inputs, offs, cur,
                   pc, loc, out, err, resolved>>

\* The last merge, of the three temporary tables or fewer that are left,
\* into the output table.
FinalMerge ==
    /\ drv.at = "later" /\ pc = "idle"
    /\ Len(drv.tmp) <= 3
    /\ CallMerge([x \in DOMAIN drv.tmp |-> SSTableInput(drv.tmp[x])],
                 [x \in DOMAIN drv.tmp |-> drv.off[x]])
    /\ drv' = [drv EXCEPT !.at = "final", !.calls = @ + 1]
    /\ UNCHANGED <<junk, sstVars, srcs, offset, compactor, resolved>>

\* The return without the loop at 1182-1188: the temporary tables of the
\* last merge are left as they are.
FinalReturn_Keep ==
    /\ drv.at = "final" /\ pc = "done"
    /\ drv' = [drv EXCEPT !.at = "end"]
    /\ UNCHANGED <<junk, sstVars, srcs, offset, compactor, inputs, offs, cur,
                   pc, loc, out, err, resolved>>

\* The last merge has returned: the temporary tables are deleted (c > 0)
\* and multimerge_postlists returns.
FinalReturn ==
    /\ drv.at = "final" /\ pc = "done"
    /\ drv' = [drv EXCEPT !.at = "end",
                          !.tmp = [k \in DOMAIN drv.tmp |->
                                      IF drv.c > 0 THEN NullTable ELSE drv.tmp[k]]]
    /\ UNCHANGED <<junk, sstVars, srcs, offset, compactor, inputs, offs, cur,
                   pc, loc, out, err, resolved>>

NextMulti ==
    \/ NextMerge
    \/ SingleReturn
    \/ FirstRoundMerge
    \/ \E asserts \in BOOLEAN : FirstRoundCommit(asserts)
    \/ FirstRoundEnd
    \/ LaterRoundMerge
    \/ \E asserts \in BOOLEAN : LaterRoundCommit(asserts)
    \/ LaterRoundEnd
    \/ FinalMerge
    \/ FinalReturn

SpecMulti == InitMulti /\ [][NextMulti]_vars

-----------------------------------------------------------------------------
(* The cursors and the output of merge_spellings, merge_synonyms and       *)
(* merge_docid_keyed.  Their inputs are GlassTables; a record is a key, a  *)
(* tag as the table stores it and z, whether it is stored compressed.      *)

\* The exclusive or of two bytes.
RECURSIVE Xor(_, _)
Xor(a, b) ==
    IF a = 0 THEN b
    ELSE IF b = 0 THEN a
    ELSE (((a % 2) + (b % 2)) % 2) + 2 * Xor(a \div 2, b \div 2)

MAGIC_XOR_VALUE == 96

\* What the compression stream makes of a tag, and back.
Deflate(s) == <<120>> \o [i \in 1..Len(s) |-> 255 - s[i]]
Inflate(t) == [i \in 1..(Len(t) - 1) |-> 255 - t[i + 1]]

\* MergeCursor::next(): the cursor moves to the next record of its table.
MergeCursor_next(inp) ==
    IF inp.pos < Len(inp.recs)
    THEN [inp |-> [inp EXCEPT !.pos = @ + 1], ok |-> TRUE,
          cur |-> [st |-> "heap", key |-> inp.recs[inp.pos + 1].key,
                   tag |-> inp.recs[inp.pos + 1].tag,
                   z |-> inp.recs[inp.pos + 1].z]]
    ELSE [inp |-> inp, ok |-> FALSE, cur |-> NoCursor]

\* cur->read_tag(): the tag, decompressed if it was compressed.
MergeCursor_read_tag(c) == IF c.z THEN Inflate(c.tag) ELSE c.tag

\* CursorGt: pq.top() is a cursor whose key is greater than no other's.
KeyTops(c) == {i \in Heap(c) : \A j \in Heap(c) : ~StrLess(c[j].key, c[i].key)}

\* The cursors in the queue that are at key.
SameKey(c, key) == {j \in Heap(c) : c[j].key = key}

\* out->add(key, tag, compressed)
Out_addz(m, key, tag, z) ==
    IF m.err # "none" THEN m
    ELSE IF SSTable_add(m.out.t, key, tag, z).err # "none"
    THEN [m EXCEPT !.err = SSTable_add(m.out.t, key, tag, z).err]
    ELSE [m EXCEPT !.out = [t |-> SSTable_add(m.out.t, key, tag, z).t,
                            recs |-> Append(m.out.recs,
                                            [key |-> key, tag |-> tag, z |-> z])]]

\* "if (cur->next()) pq.push(cur); else delete cur;" once next() gave r.
MergeCursor_keep(m, i, r) ==
    [m EXCEPT !.inputs[i] = r.inp,
              !.cur[i] = IF r.ok THEN r.cur ELSE [@ EXCEPT !.st = "dead"]]

\* "if (cur->next()) pq.push(cur); else delete cur;"
MergeCursor_advance(m, i) ==
    IF m.err # "none" THEN m
    ELSE MergeCursor_keep(m, i, MergeCursor_next(m.inputs[i]))

\* The same for every cursor of the set h.
RECURSIVE MergeCursor_advance_all(_, _)
MergeCursor_advance_all(m, h) ==
    IF h = {} THEN m
    ELSE MergeCursor_advance_all(
             MergeCursor_advance(m, CHOOSE i \in h : \A j \in h : i <= j),
             h \ {CHOOSE i \in h : \A j \in h : i <= j})

\* The loop over [b, e): a cursor, at the first record, for every table
\* that is not empty.
RECURSIVE OpenMergeCursors(_, _)
OpenMergeCursors(m, i) ==
    IF i > Len(m.inputs) THEN m
    ELSE IF Table_empty(m.inputs[i]) THEN OpenMergeCursors(m, i + 1)
    ELSE OpenMergeCursors(MergeCursor_keep(m, i, MergeCursor_next(m.inputs[i])),
                          i + 1)

-----------------------------------------------------------------------------
(* Prefix-compressed word lists (prefix_compressed_strings.h) and          *)
(* pack_uint_last (pack.h).                                                *)

\* std::string::resize(n)
Resize(s, n) == IF n <= Len(s) THEN Take(s, n) ELSE s \o Fill(n - Len(s), 0)

PCS_bad == [cur |-> <<>>, rest |-> <<>>, end |-> TRUE, bad |-> TRUE]

\* The end of operator++: the length byte and the bytes to append.
PCS_tail(current, rest) ==
    IF rest = <<>> \/ Xor(rest[1], MAGIC_XOR_VALUE) >= Len(rest) THEN PCS_bad
    ELSE [cur |-> current \o SubSeq(rest, 2, Xor(rest[1], MAGIC_XOR_VALUE) + 1),
          rest |-> Drop(rest, Xor(rest[1], MAGIC_XOR_VALUE) + 1),
          end |-> FALSE, bad |-> FALSE]

\* PrefixCompressedStringItor::operator++
PCS_inc(it) ==
    IF it.rest = <<>> THEN [it EXCEPT !.end = TRUE]
    ELSE IF it.cur # <<>>
    THEN PCS_tail(Resize(it.cur, Xor(it.rest[1], MAGIC_XOR_VALUE)), Drop(it.rest, 1))
    ELSE PCS_tail(it.cur, it.rest)

\* PrefixCompressedStringItor(s)
PCS_new(s) ==
    IF s = <<>> THEN [cur |-> <<>>, rest |-> <<>>, end |-> TRUE, bad |-> FALSE]
    ELSE PCS_inc([cur |-> <<>>, rest |-> s, end |-> FALSE, bad |-> FALSE])

\* PrefixCompressedStringWriter::append(word) on the writer w.
PCW_append(w, word) ==
    IF w.current # <<>>
    THEN [out |-> w.out \o <<Xor(CommonPrefix(w.current, word, 0), MAGIC_XOR_VALUE),
                             Xor(Len(word) - CommonPrefix(w.current, word, 0),
                                 MAGIC_XOR_VALUE)>>
                        \o Drop(word, CommonPrefix(w.current, word, 0)),
          current |-> word]
    ELSE [out |-> w.out \o <<Xor(Len(word), MAGIC_XOR_VALUE)>> \o word,
          current |-> word]

PCW_new == [out |-> <<>>, current |-> <<>>]

\* The words of ws written one after the other by a new writer.
RECURSIVE PCW_all(_, _)
PCW_all(w, ws) ==
    IF ws = <<>> THEN w.out ELSE PCW_all(PCW_append(w, ws[1]), Drop(ws, 1))

\* pack_uint_last: the bytes of value, low byte first, none for 0.
RECURSIVE pack_uint_last(_)
pack_uint_last(value) ==
    IF value = 0 THEN <<>>
    ELSE <<value % 256>> \o pack_uint_last(value \div 256)

RECURSIVE LittleEndianVal(_)
LittleEndianVal(s) ==
    IF s = <<>> THEN 0 ELSE s[1] + 256 * LittleEndianVal(Drop(s, 1))

\* unpack_uint_last into a 32-bit termcount: all the bytes left, no more
\* than four.
unpack_uint_last(s) ==
    IF Len(s) > 4 THEN [ok |-> FALSE, val |-> 0]
    ELSE IF Len(s) = 4 /\ s[4] >= 16 THEN [ok |-> TRUE, val |-> Huge]
    ELSE [ok |-> TRUE, val |-> LittleEndianVal(s)]

-----------------------------------------------------------------------------
(* merge_spellings                                                         *)

NewWord_Always(word, lastword) == TRUE
\* "if (word != lastword)"
NewWord(word, lastword) == word # lastword

\* The iterators that are in pqtag.
InTagQueue(its) == {k \in DOMAIN its : ~its[k].end}

\* The merge of the word lists: pqtag gives the iterator with the least
\* word, the word is appended if it is not lastword, the iterator moves on
\* and goes back into pqtag unless it is at its end.  An iterator is
\* pushed when it is made even if its list is empty; its word is then the
\* empty string.
RECURSIVE MergeWords(_, _, _, _)
MergeWords_inc(its, k, nx, pushed, lastword, w) ==
    IF nx.bad THEN [ok |-> FALSE, tag |-> <<>>]
    ELSE MergeWords([its EXCEPT ![k] = nx], pushed \ {k}, lastword, w)

MergeWords_pop(its, pushed, lastword, w, k) ==
    MergeWords_inc(its, k, PCS_inc(its[k]), pushed,
                   its[k].cur,
                   IF NewWord(its[k].cur, lastword)
                   THEN PCW_append(w, its[k].cur) ELSE w)

MergeWords(its, pushed, lastword, w) ==
    IF InTagQueue(its) \cup pushed = {} THEN [ok |-> TRUE, tag |-> w.out]
    ELSE MergeWords_pop(its, pushed, lastword, w,
             CHOOSE k \in InTagQueue(its) \cup pushed :
                 \A j \in InTagQueue(its) \cup pushed :
                     ~StrLess(its[j].cur, its[k].cur))

\* The word-set branch for the cursors h at key.
SpellWords(m, key, h) ==
    IF \E j \in h : PCS_new(MergeCursor_read_tag(m.cur[j])).bad
    THEN [ok |-> FALSE, tag |-> <<>>]
    ELSE MergeWords([j \in h |-> PCS_new(MergeCursor_read_tag(m.cur[j]))],
                    h, <<>>, PCW_new)

\* The frequency a cursor's tag holds, 0 if unpack_uint_last fails.
SpellFreq(c) ==
    IF unpack_uint_last(MergeCursor_read_tag(c)).ok
    THEN unpack_uint_last(MergeCursor_read_tag(c)).val
    ELSE 0

BadSpellFreq_Never(c) == FALSE
\* "!unpack_uint_last(&p, end, &freq) || freq == 0"
BadSpellFreq(c) == SpellFreq(c) = 0

\* "tot_freq += freq" over the cursors h.
RECURSIVE SpellTotal(_, _)
SpellTotal(c, h) ==
    IF h = {} THEN 0
    ELSE Min(Huge, SpellFreq(c[CHOOSE i \in h : TRUE])
                   + SpellTotal(c, h \ {CHOOSE i \in h : TRUE}))

\* The body of the loop once a tag was merged (ok) or not: the cursors
\* move on and "out->add(key, tag)".
SpellMerged(m, key, h, r) ==
    IF ~r.ok THEN [m EXCEPT !.err = "DatabaseCorruptError"]
    ELSE Out_addz(MergeCursor_advance_all(m, h), key, r.tag, FALSE)

\* The body with read_tag() in place of read_tag(true) on the fast path:
\* the tag is decompressed and written as an uncompressed one.
SpellBody_Decompress(m, i, key, h) ==
    IF h = {i}
    THEN MergeCursor_advance(
             Out_addz(m, key, MergeCursor_read_tag(m.cur[i]), FALSE), i)
    ELSE IF key[1] # 87
    THEN SpellMerged(m, key, h, SpellWords(m, key, h))
    ELSE SpellMerged(m, key, h,
             [ok |-> \A j \in h : ~BadSpellFreq(m.cur[j]),
              tag |-> pack_uint_last(SpellTotal(m.cur, h))])

\* The body of the loop of merge_spellings with cur the cursor i.
SpellBody(m, i, key, h) ==
    IF h = {i}
    THEN MergeCursor_advance(Out_addz(m, key, m.cur[i].tag, m.cur[i].z), i)
    ELSE IF key[1] # 87
    THEN SpellMerged(m, key, h, SpellWords(m, key, h))
    ELSE SpellMerged(m, key, h,
             [ok |-> \A j \in h : ~BadSpellFreq(m.cur[j]),
              tag |-> pack_uint_last(SpellTotal(m.cur, h))])

\* The cursors are made and pushed.
SpellOpen ==
    /\ pc = "spell_start"
    /\ Step(OpenMergeCursors(Machine, 1), "spell")

\* One turn of "while (!pq.empty())".
SpellStep(i) ==
    /\ pc = "spell"
    /\ i \in KeyTops(cur)
    /\ Step(SpellBody(Machine, i, cur[i].key, SameKey(cur, cur[i].key)), "spell")

SpellEnd ==
    /\ pc = "spell"
    /\ Heap(cur) = {}
    /\ pc' = "done"
    /\ UNCHANGED <<junk, sstVars, srcs, offset, compactor, inputs, offs, cur,
                   loc, out, err, resolved, drv>>

\* The spelling tables the sources are taken from.
SpellRec(key, tag, z) == [key |-> key, tag |-> tag, z |-> z]
WordList(ws) == PCW_all(PCW_new, ws)

SpEmpty == <<>>
\* "Ha" -> {a, ab}, "Wa" -> 2
SpA == << SpellRec(<<72, 97>>, WordList(<< <<97>>, <<97, 98>> >>), FALSE),
          SpellRec(<<87, 97>>, pack_uint_last(2), FALSE) >>
\* "Ha" -> {ab, b}, "Hb" -> {b, ba} compressed, "Wa" -> 5, "Wb" -> 0
SpB == << SpellRec(<<72, 97>>, WordList(<< <<97, 98>>, <<98>> >>), FALSE),
          SpellRec(<<72, 98>>, Deflate(WordList(<< <<98>>, <<98, 97>> >>)), TRUE),
          SpellRec(<<87, 97>>, pack_uint_last(5), FALSE),
          SpellRec(<<87, 98>>, pack_uint_last(0), FALSE) >>
\* "Ha" -> {a, ac, b} compressed, "Wa" -> 0
SpC == << SpellRec(<<72, 97>>, Deflate(WordList(<< <<97>>, <<97, 99>>, <<98>> >>)), TRUE),
          SpellRec(<<87, 97>>, pack_uint_last(0), FALSE) >>
\* "Hb" -> {a}, "Wa" -> 300
SpD == << SpellRec(<<72, 98>>, WordList(<< <<97>> >>), FALSE),
          SpellRec(<<87, 97>>, pack_uint_last(300), FALSE) >>

SpellCatalogue == {SpEmpty, SpA, SpB, SpC, SpD}

\* The state the merge of a table other than postlist starts in.
TableMergeInit(cat, start) ==
    /\ junk \in JunkBytes
    /\ SstIdle
    /\ \E n \in 1..MaxInputs : srcs \in [1..n -> cat]
    /\ offset = [i \in DOMAIN srcs |-> (i - 1) * DocsPerSource]
    /\ compactor = FALSE
    /\ inputs = [i \in DOMAIN srcs |-> GlassInput(srcs[i])]
    /\ offs = offset
    /\ cur = [i \in DOMAIN srcs |-> NoCursor]
    /\ pc = start
    /\ loc = NoLocals
    /\ out = [t |-> SSTable_new(junk), recs |-> <<>>]
    /\ err = "none"
    /\ resolved = <<>>
    /\ drv = NoDriver

InitSpell == TableMergeInit(SpellCatalogue, "spell_start")

NextSpell ==
    \/ SpellOpen
    \/ \E i \in DOMAIN cur : SpellStep(i)
    \/ SpellEnd

SpecSpell == InitSpell /\ [][NextSpell]_vars

-----------------------------------------------------------------------------
(* merge_synonyms, with the byte-length-prefixed word lists of            *)
(* byte_length_strings.h.  A synonym table holds no empty tag.            *)

\* ByteLengthPrefixedStringItor with rest left: operator* and at_end().
BLS_at(rest) ==
    IF rest = <<>> THEN [cur |-> <<>>, rest |-> <<>>, end |-> TRUE, bad |-> FALSE]
    ELSE IF Xor(rest[1], MAGIC_XOR_VALUE) + 1 > Len(rest) THEN PCS_bad
    ELSE [cur |-> SubSeq(rest, 2, Xor(rest[1], MAGIC_XOR_VALUE) + 1),
          rest |-> rest, end |-> FALSE, bad |-> FALSE]

\* ByteLengthPrefixedStringItor::operator++
BLS_inc(it) == BLS_at(Drop(it.rest, Xor(it.rest[1], MAGIC_XOR_VALUE) + 1))

SynItem_NoXor(word) == <<Len(word)>> \o word
\* "tag += byte(lastword.size() ^ MAGIC_XOR_VALUE); tag += lastword;"
SynItem(word) == <<Xor(Len(word), MAGIC_XOR_VALUE)>> \o word

\* The merge of the word lists of merge_synonyms.
RECURSIVE SynMergeWords(_, _, _)
SynMergeWords_inc(its, k, nx, lastword, tag) ==
    IF nx.bad THEN [ok |-> FALSE, tag |-> <<>>]
    ELSE SynMergeWords([its EXCEPT ![k] = nx], lastword, tag)

SynMergeWords_pop(its, lastword, tag, k) ==
    SynMergeWords_inc(its, k, BLS_inc(its[k]), its[k].cur,
                      IF its[k].cur # lastword THEN tag \o SynItem(its[k].cur)
                      ELSE tag)

SynMergeWords(its, lastword, tag) ==
    IF InTagQueue(its) = {} THEN [ok |-> TRUE, tag |-> tag]
    ELSE SynMergeWords_pop(its, lastword, tag,
             CHOOSE k \in InTagQueue(its) :
                 \A j \in InTagQueue(its) : ~StrLess(its[j].cur, its[k].cur))

\* The merge of the tags of the cursors h at key.
SynWords(m, h) ==
    IF \E j \in h : BLS_at(MergeCursor_read_tag(m.cur[j])).bad
    THEN [ok |-> FALSE, tag |-> <<>>]
    ELSE SynMergeWords([j \in h |-> BLS_at(MergeCursor_read_tag(m.cur[j]))],
                       <<>>, <<>>)

\* The body of the loop of merge_synonyms with cur the cursor i.
SynBody(m, i, key, h) ==
    IF h = {i}
    THEN MergeCursor_advance(Out_addz(m, key, m.cur[i].tag, m.cur[i].z), i)
    ELSE SpellMerged(m, key, h, SynWords(m, h))

SynOpen ==
    /\ pc = "syn_start"
    /\ Step(OpenMergeCursors(Machine, 1), "syn")

\* One turn of "while (!pq.empty())".
SynStep(i) ==
    /\ pc = "syn"
    /\ i \in KeyTops(cur)
    /\ Step(SynBody(Machine, i, cur[i].key, SameKey(cur, cur[i].key)), "syn")

SynEnd ==
    /\ pc = "syn"
    /\ Heap(cur) = {}
    /\ pc' = "done"
    /\ UNCHANGED <<junk, sstVars, srcs, offset, compactor, inputs, offs, cur,
                   loc, out, err, resolved, drv>>

\* The synonym tables the sources are taken from.
RECURSIVE SynList(_)
SynList(ws) ==
    IF ws = <<>> THEN <<>>
    ELSE <<Xor(Len(ws[1]), MAGIC_XOR_VALUE)>> \o ws[1] \o SynList(Drop(ws, 1))

\* "a" -> {x, y}, "c" -> {z}
SyA == << SpellRec(<<97>>, SynList(<< <<120>>, <<121>> >>), FALSE),
          SpellRec(<<99>>, SynList(<< <<122>> >>), FALSE) >>
\* "a" -> {y, zz}, "b" -> {x} compressed
SyB == << SpellRec(<<97>>, SynList(<< <<121>>, <<122, 122>> >>), FALSE),
          SpellRec(<<98>>, Deflate(SynList(<< <<120>> >>)), TRUE) >>
\* "a" -> {w, y} compressed, "b" -> {x, xy}
SyC == << SpellRec(<<97>>, Deflate(SynList(<< <<119>>, <<121>> >>)), TRUE),
          SpellRec(<<98>>, SynList(<< <<120>>, <<120, 121>> >>), FALSE) >>

SynCatalogue == {SpEmpty, SyA, SyB, SyC}

InitSyn == TableMergeInit(SynCatalogue, "syn_start")

NextSyn ==
    \/ SynOpen
    \/ \E i \in DOMAIN cur : SynStep(i)
    \/ SynEnd

SpecSyn == InitSyn /\ [][NextSyn]_vars

-----------------------------------------------------------------------------
(* GlassDatabase::compact, the driver.  The merge of a table is here one  *)
(* step that returns or throws; what it writes is in SpecMerge, SpecMulti, *)
(* SpecSpell, SpecSyn and SpecDocid.  A source database is single_file or *)
(* a directory, dirty if it has uncommitted changes, and for every table  *)
(* has what file_size() sets errno to ("ok" for 0) and whether the table  *)
(* is empty.  drv holds the locals of compact and log, the calls made.    *)

\* The number of source databases.
MaxSources == 2

\* tables[]
Tables == << [name |-> "postlist", lazy |-> FALSE],
             [name |-> "docdata",  lazy |-> TRUE],
             [name |-> "termlist", lazy |-> FALSE],
             [name |-> "position", lazy |-> TRUE],
             [name |-> "spelling", lazy |-> TRUE],
             [name |-> "synonym",  lazy |-> TRUE] >>

TableNames == {Tables[x].name : x \in DOMAIN Tables}

\* A source database in a directory with the tables of the set has, the
\* files of nostat there but not stat-able, the others not there.
DirDb(has, nostat, dirty) ==
    [single_file |-> FALSE, dirty |-> dirty,
     errno |-> [n \in TableNames |-> IF n \in has THEN "ok"
                                     ELSE IF n \in nostat THEN "EOVERFLOW"
                                     ELSE "ENOENT"],
     empty |-> [n \in TableNames |-> n \notin has \cup nostat]]

\* A single-file source database, with data in the tables of the set has.
FileDb(has) ==
    [single_file |-> TRUE, dirty |-> FALSE,
     errno |-> [n \in TableNames |-> "ok"],
     empty |-> [n \in TableNames |-> n \notin has]]

DbCatalogue ==
    { DirDb(TableNames, {}, FALSE),
      DirDb(TableNames, {}, TRUE),
      DirDb(TableNames \ {"termlist"}, {}, FALSE),
      DirDb({"postlist", "termlist"}, {}, FALSE),
      DirDb({"postlist", "docdata", "spelling"}, {"termlist"}, FALSE),
      FileDb({"postlist", "docdata", "termlist"}),
      FileDb({"postlist", "synonym"}) }

\* The loop over the sources (1491-1542): does the source count in
\* inputs_present for the table t.
InputPresent(db, t) ==
    IF db.single_file THEN ~(t.lazy /\ db.empty[t.name])
    ELSE db.errno[t.name] # "ENOENT"

inputs_present(t) ==
    Cardinality({i \in DOMAIN srcs : InputPresent(srcs[i], t)})

\* output_will_exist after the loop over the sources.
output_will_exist(t) == ~t.lazy \/ inputs_present(t) > 0

SuppressTermlist_Never(t) == FALSE
\* "t->type == Glass::TERMLIST && inputs_present != sources.size()"
SuppressTermlist(t) == t.name = "termlist" /\ inputs_present(t) # Len(srcs)

\* The table t is left out: "continue" at 1554 or at 1562.
TableSkipped(t) == SuppressTermlist(t) \/ ~output_will_exist(t)

\* The locals of compact on entry.
CompactLocals(single_file) ==
    [at |-> "compact", single_file |-> single_file, t |-> 1, lock |-> "none",
     fd_open |-> FALSE, version |-> "none", tabs |-> <<>>, log |-> <<>>]

Event(ev, name) == [ev |-> ev, name |-> name]

\* An exception leaves compact.
CompactThrow(kind, d) ==
    /\ pc' = "failed" /\ err' = kind /\ drv' = d

\* The variables compact's steps leave alone.
CompactKeeps ==
    UNCHANGED <<junk, sstVars, srcs, offset, compactor, inputs, offs, cur, loc,
                out, resolved>>

InitCompact ==
    /\ junk = 0
    /\ SstIdle
    /\ \E n \in 1..MaxSources : srcs \in [1..n -> DbCatalogue]
    /\ offset = [i \in DOMAIN srcs |-> (i - 1) * DocsPerSource]
    /\ compactor = FALSE
    /\ inputs = <<>> /\ offs = <<>> /\ cur = <<>>
    /\ loc = NoLocals
    /\ out = [t |-> SSTable_new(junk), recs |-> <<>>]
    /\ pc = "c_entry"
    /\ err = "none"
    /\ resolved = <<>>
    /\ \E single_file \in BOOLEAN : drv = CompactLocals(single_file)

\* The check for uncommitted changes is left out.
CompactEnter_Unchecked ==
    /\ pc = "c_entry"
    /\ pc' = "c_lock" /\ err' = err /\ drv' = drv
    /\ CompactKeeps

\* 1391-1410: with single_file, a source with uncommitted changes throws.
CompactEnter ==
    /\ pc = "c_entry"
    /\ IF drv.single_file /\ \E i \in DOMAIN srcs : srcs[i].dirty
       THEN CompactThrow("InvalidOperationError", drv)
       ELSE pc' = "c_lock" /\ err' = err /\ drv' = drv
    /\ CompactKeeps

\* The result of lock.lock() is not looked at.
CompactLock_Ignored(got) ==
    /\ pc = "c_lock"
    /\ pc' = "c_version" /\ err' = err
    /\ drv' = IF ~drv.single_file /\ got
              THEN [drv EXCEPT !.lock = "held",
                               !.log = Append(@, Event("lock", "dest"))]
              ELSE drv
    /\ CompactKeeps

\* 1418-1425: the lock on the destination directory; got tells whether
\* lock.lock() gives SUCCESS.
CompactLock(got) ==
    /\ pc = "c_lock"
    /\ IF drv.single_file
       THEN pc' = "c_version" /\ err' = err /\ drv' = drv
       ELSE IF got
       THEN /\ pc' = "c_version" /\ err' = err
            /\ drv' = [drv EXCEPT !.lock = "held",
                                  !.log = Append(@, Event("lock", "dest"))]
       ELSE CompactThrow("DatabaseLockError", drv)
    /\ CompactKeeps

\* 1427-1445: the destination file is opened or created (single_file,
\* opened tells whether open() succeeds) and the version file object is
\* made, in memory.
CompactVersion(opened) ==
    /\ pc = "c_version"
    /\ IF drv.single_file /\ ~opened
       THEN CompactThrow("DatabaseCreateError", drv)
       ELSE /\ pc' = "c_table" /\ err' = err
            /\ drv' = [drv EXCEPT
                   !.fd_open = drv.single_file,
                   !.version = "created",
                   !.log = IF drv.single_file
                           THEN @ \o <<Event("open", "dest"), Event("version_new", "dest")>>
                           ELSE Append(@, Event("version_new", "dest"))]
    /\ CompactKeeps

\* 1459-1580: the table tables[t] is left out, or its output table is
\* made: NULL with single_file, else a new SSTable that create_and_open
\* opens for writing (opened tells whether the file can be opened).
CompactTable(opened) ==
    /\ pc = "c_table"
    /\ drv.t <= Len(Tables)
    /\ IF TableSkipped(Tables[drv.t])
       THEN /\ pc' = pc /\ err' = err
            /\ drv' = [drv EXCEPT !.t = @ + 1,
                                  !.log = Append(@, Event("skip", Tables[drv.t].name))]
       ELSE IF drv.single_file
       THEN /\ pc' = "c_merge" /\ err' = err
            /\ drv' = [drv EXCEPT !.tabs = Append(@, [name |-> Tables[drv.t].name,
                                                      st |-> "null", syncs |-> 0])]
       ELSE IF opened
       THEN /\ pc' = "c_merge" /\ err' = err
            /\ drv' = [drv EXCEPT
                   !.tabs = Append(@, [name |-> Tables[drv.t].name,
                                       st |-> "writable", syncs |-> 0]),
                   !.log = Append(@, Event("create", Tables[drv.t].name))]
       ELSE CompactThrow("DatabaseOpeningError",
                [drv EXCEPT !.tabs = Append(@, [name |-> Tables[drv.t].name,
                                                st |-> "closed", syncs |-> 0])])
    /\ CompactKeeps

\* 1582-1609: the merge of the table; with single_file out is NULL and
\* the calls through it are undefined.  merged tells whether the merge
\* returns or throws.
CompactMerge(merged) ==
    /\ pc = "c_merge"
    /\ IF drv.single_file
       THEN CompactThrow("undefined", drv)
       ELSE IF merged
       THEN /\ pc' = "c_commit" /\ err' = err
            /\ drv' = [drv EXCEPT !.log = Append(@, Event("merge", Tables[drv.t].name))]
       ELSE CompactThrow("DatabaseCorruptError", drv)
    /\ CompactKeeps

\* The loop goes on to the next table and leaves out the three calls.
CompactCommit_Skipped ==
    /\ pc = "c_commit"
    /\ pc' = "c_table" /\ err' = err
    /\ drv' = [drv EXCEPT !.t = @ + 1]
    /\ CompactKeeps

\* 1611-1614: out->flush_db(); out->commit(1, root_info); out->sync();
\* commit leaves the table read-only.
CompactCommit ==
    /\ pc = "c_commit"
    /\ pc' = "c_table" /\ err' = err
    /\ drv' = [drv EXCEPT
           !.t = @ + 1,
           !.tabs[Len(drv.tabs)] = [@ EXCEPT !.st = "read_only", !.syncs = @ + 1],
           !.log = @ \o <<Event("flush_db", Tables[drv.t].name),
                          Event("commit", Tables[drv.t].name),
                          Event("sync", Tables[drv.t].name)>>]
    /\ CompactKeeps

\* "tabs[j]->sync()" for every j.
RECURSIVE SyncEvents(_)
SyncEvents(tabs) ==
    IF tabs = <<>> THEN <<>>
    ELSE <<Event("sync", tabs[1].name)>> \o SyncEvents(Drop(tabs, 1))

\* The version file is written once the first table is done.
CompactWrite_Early(written) ==
    /\ pc = "c_table"
    /\ drv.t > 1
    /\ IF written
       THEN /\ pc' = "c_publish" /\ err' = err
            /\ drv' = [drv EXCEPT
                   !.version = "written",
                   !.tabs = [j \in DOMAIN drv.tabs |->
                                [drv.tabs[j] EXCEPT !.syncs = @ + 1]],
                   !.log = @ \o <<Event("version_write", "dest")>>
                             \o SyncEvents(drv.tabs)]
       ELSE CompactThrow("DatabaseError", drv)
    /\ CompactKeeps

\* 1671-1696: after the last table the version file is written to a
\* temporary file (written tells whether write() returns) and every
\* output table is synced.
CompactWrite(written) ==
    /\ pc = "c_table"
    /\ drv.t > Len(Tables)
    /\ IF written
       THEN /\ pc' = "c_publish" /\ err' = err
            /\ drv' = [drv EXCEPT
                   !.version = "written",
                   !.tabs = [j \in DOMAIN drv.tabs |->
                                [drv.tabs[j] EXCEPT !.syncs = @ + 1]],
                   !.log = @ \o <<Event("version_write", "dest")>>
                             \o SyncEvents(drv.tabs)]
       ELSE CompactThrow("DatabaseError", drv)
    /\ CompactKeeps

\* 1697-1703: the version file is published (synced tells whether sync()
\* returns), the output tables are deleted and the lock is released.
CompactPublish(synced) ==
    /\ pc = "c_publish"
    /\ IF synced
       THEN /\ pc' = "done" /\ err' = err
            /\ drv' = [drv EXCEPT
                   !.version = "published",
                   !.tabs = [j \in DOMAIN drv.tabs |->
                                [drv.tabs[j] EXCEPT !.st = "deleted"]],
                   !.lock = IF drv.single_file THEN @ ELSE "released",
                   !.log = IF drv.single_file
                           THEN Append(@, Event("version_sync", "dest"))
                           ELSE @ \o <<Event("version_sync", "dest"),
                                       Event("release", "dest")>>]
       ELSE CompactThrow("DatabaseError", drv)
    /\ CompactKeeps

NextCompact ==
    \/ CompactEnter
    \/ \E got \in BOOLEAN : CompactLock(got)
    \/ \E opened \in BOOLEAN : CompactVersion(opened)
    \/ \E opened \in BOOLEAN : CompactTable(opened)
    \/ \E merged \in BOOLEAN : CompactMerge(merged)
    \/ CompactCommit
    \/ \E written \in BOOLEAN : CompactWrite(written)
    \/ \E synced \in BOOLEAN : CompactPublish(synced)

SpecCompact == InitCompact /\ [][NextCompact]_vars

-----------------------------------------------------------------------------
(* merge_docid_keyed (docdata, termlist).  Xapian::docid is 32 bits wide;  *)
(* a docid is held here as its four bytes, high byte first, so that        *)
(* "did += off" wraps as it does in the code.                              *)

\* unpack_uint_preserving_sort(&d, e, &did): the docid at the head of key
\* and the bytes after it.
Docid32(key) ==
    IF key = <<>> \/ key[1] > 4 \/ Len(key) - 1 < key[1]
    THEN [ok |-> FALSE, did |-> <<>>, rest |-> <<>>]
    ELSE [ok |-> TRUE,
          did |-> Fill(4 - key[1], 0) \o SubSeq(key, 2, key[1] + 1),
          rest |-> Drop(key, key[1] + 1)]

\* s + c for s a number in bytes, high byte first; a carry out of the
\* first byte is lost.
RECURSIVE AddWrap(_, _)
AddWrap(s, c) ==
    IF s = <<>> THEN <<>>
    ELSE Append(AddWrap(Take(s, Len(s) - 1), (s[Len(s)] + c) \div 256),
                (s[Len(s)] + c) % 256)

\* "did += off"
Docid32_add(did, off) == AddWrap(did, off)

RECURSIVE StripZeros(_)
StripZeros(s) == IF Len(s) > 1 /\ s[1] = 0 THEN StripZeros(Drop(s, 1)) ELSE s

\* pack_uint_preserving_sort(key, did)
Docid32_pack(did) == <<Len(StripZeros(did))>> \o StripZeros(did)

\* The key merge_docid_keyed writes for key of a source with offset off.
DocidKey_NoShift(key, off) == [ok |-> TRUE, key |-> key]
DocidKey(key, off) ==
    IF off = 0 THEN [ok |-> TRUE, key |-> key]
    ELSE IF ~Docid32(key).ok THEN [ok |-> FALSE, key |-> <<>>]
    ELSE [ok |-> TRUE,
          key |-> Docid32_pack(Docid32_add(Docid32(key).did, off))
                  \o Docid32(key).rest]

\* "for (size_t i = 0; i < inputs.size(); ++i)": the source the loop is at.
DocidSource(c) == {i \in DOMAIN c : c[i].st # "dead"
                                    /\ \A j \in 1..(i - 1) : c[j].st = "dead"}

\* One turn of "while (cur.next())" for source i, once next() gave r.
DocidCopy(m, i, off, r) ==
    IF ~r.ok THEN MergeCursor_keep(m, i, r)
    ELSE IF ~DocidKey(r.cur.key, off).ok
    THEN [m EXCEPT !.err = "DatabaseCorruptError"]
    ELSE Out_addz(MergeCursor_keep(m, i, r), DocidKey(r.cur.key, off).key,
                  r.cur.tag, r.cur.z)

\* The loop body for source i: an empty table is skipped.
DocidBody(m, i, off) ==
    IF Table_empty(m.inputs[i]) THEN [m EXCEPT !.cur[i].st = "dead"]
    ELSE DocidCopy(m, i, off, MergeCursor_next(m.inputs[i]))

DocidStep(i) ==
    /\ pc = "docid"
    /\ i \in DocidSource(cur)
    /\ Step(DocidBody(Machine, i, offs[i]), "docid")

DocidEnd ==
    /\ pc = "docid"
    /\ DocidSource(cur) = {}
    /\ pc' = "done"
    /\ UNCHANGED <<junk, sstVars, srcs, offset, compactor, inputs, offs, cur,
                   loc, out, err, resolved, drv>>

\* The docid-keyed tables the sources are taken from.
\* docids 1 and 2, the second value compressed
DkA == << SpellRec(<<1, 1>>, <<100, 49>>, FALSE),
          SpellRec(<<1, 2>>, Deflate(<<100, 50>>), TRUE) >>
\* docid 1 with bytes after it, twice, and docid 3
DkB == << SpellRec(<<1, 1, 97>>, <<7>>, FALSE),
          SpellRec(<<1, 1, 98>>, <<>>, FALSE),
          SpellRec(<<1, 3>>, Deflate(<<8>>), TRUE) >>
\* docids 255 and 256
DkC == << SpellRec(<<1, 255>>, <<9>>, FALSE),
          SpellRec(<<2, 1, 0>>, <<10>>, FALSE) >>
\* docid 2^32 - 2
DkBig == << SpellRec(<<4, 255, 255, 255, 254>>, <<11>>, FALSE) >>
\* a key that is cut short
DkBad == << SpellRec(<<2, 1>>, <<12>>, FALSE) >>

DocidCatalogue == {SpEmpty, DkA, DkB, DkC, DkBig, DkBad}

\* The offsets the caller passes.
DocidOffsets == {0, 4, 260}

InitDocid ==
    /\ junk \in JunkBytes
    /\ SstIdle
    /\ \E n \in 1..MaxSources : /\ srcs \in [1..n -> DocidCatalogue]
                                /\ offset \in [1..n -> DocidOffsets]
    /\ compactor = FALSE
    /\ inputs = [i \in DOMAIN srcs |-> GlassInput(srcs[i])]
    /\ offs = offset
    /\ cur = [i \in DOMAIN srcs |-> NoCursor]
    /\ pc = "docid"
    /\ loc = NoLocals
    /\ out = [t |-> SSTable_new(junk), recs |-> <<>>]
    /\ err = "none"
    /\ resolved = <<>>
    /\ drv = NoDriver

NextDocid ==
    \/ \E i \in DOMAIN cur : DocidStep(i)
    \/ DocidEnd

SpecDocid == InitDocid /\ [][NextDocid]_vars

-----------------------------------------------------------------------------
(* Claims about the SSTable writer and reader (SpecSST).                   *)

LastAccepted == IF accepted = <<>> THEN <<>> ELSE accepted[Len(accepted)].key

\* The calls so far were add*, flush_db, commit: one flush_db, no add
\* accepted after it, and a commit that succeeded.
Committed == tbl.read_only /\ proto.flushes = 1 /\ ~proto.late

\* The bytes add() writes for the records of recs after a record with key
\* prev: one or two header bytes, the key suffix, the packed value length
\* and the value.
RECURSIVE RecordBytes(_, _)
RecordBytes(recs, prev) ==
    IF recs = <<>> THEN 0
    ELSE LET r == recs[1]
             i == CommonPrefix(prev, r.key, 0)
         IN  (IF prev = <<>> THEN 1 + Len(r.key) ELSE 2 + Len(r.key) - i)
             + Len(pack_uint(2 * Len(r.val) + (IF r.compressed THEN 1 ELSE 0)))
             + Len(r.val)
             + RecordBytes(Drop(recs, 1), r.key)

\* C1: on a writable table the keys of the accepted records are strictly
\* increasing in unsigned byte order, and an add() whose key (of a length
\* add() allows, 1..255) is less than or equal to the last accepted key is
\* rejected with an invalid-operation error and changes nothing.
C1_SortedKeys ==
    /\ \A i \in 1..(Len(accepted) - 1) : StrLess(accepted[i].key, accepted[i + 1].key)
    /\ ~tbl.read_only =>
          \A key \in SstKeys, val \in SstVals, compressed \in BOOLEAN :
              (Len(key) \in 1..MaxKeyLen /\ StrLeq(key, LastAccepted)) =>
                  SSTable_add(tbl, key, val, compressed)
                      = [t |-> tbl, err |-> "InvalidOperationError"]

\* An add() was just rejected for its order, after two accepted records.
C1_Witness ==
    /\ ~tbl.read_only
    /\ call = [op |-> "add", err |-> "InvalidOperationError"]
    /\ Len(accepted) >= 2

\* C2: after add*, flush_db and commit, the read_item calls return exactly
\* the accepted records, in order, with the same key, value and compressed
\* flag, and then return false; no call throws and no extra record is
\* returned.
C2_RoundTrip ==
    Committed =>
        /\ ~proto.broken
        /\ Len(items) <= Len(accepted)
        /\ items = Take(accepted, Len(items))
        /\ proto.eof => items = accepted

\* C3: add() rejects every key of length 0 or above 255: the call changes
\* nothing (no byte written, num_entries, last_key and the index as they
\* were), and on a writable table the error is invalid-argument.
C3_KeyLength ==
    \A key \in SstKeys, val \in SstVals, compressed \in BOOLEAN :
        (Len(key) = 0 \/ Len(key) > MaxKeyLen) =>
            /\ SSTable_add(tbl, key, val, compressed).t = tbl
            /\ SSTable_add(tbl, key, val, compressed).err # "none"
            /\ ~tbl.read_only =>
                  SSTable_add(tbl, key, val, compressed).err = "InvalidArgumentError"

\* An add() was just rejected for its key length on a table that holds
\* records.
C3_Witness ==
    /\ ~tbl.read_only
    /\ call = [op |-> "add", err |-> "InvalidArgumentError"]
    /\ accepted # <<>>

\* C4: after add*, flush_db and commit the RootInfo holds num_entries = the
\* number of accepted add() calls and root = the offset at which the index
\* starts in the file = the number of bytes of the data records; with no
\* add() the commit succeeds with num_entries = 0 and root = 0.
C4_RootInfo ==
    Committed =>
        /\ root_info.num_entries = Len(accepted)
        /\ root_info.root = RecordBytes(accepted, <<>>)
        /\ Drop(tbl.fh.file, root_info.root) = tbl.index.data
        /\ accepted = <<>> => root_info.num_entries = 0 /\ root_info.root = 0

\* A table of two records and a non-empty index was committed.
C4_Witness ==
    /\ Committed
    /\ call = [op |-> "commit", err |-> "none"]
    /\ Len(accepted) = 2
    /\ tbl.index.n_index > 0

-----------------------------------------------------------------------------
(* Claims about merge_postlists over source tables (SpecMerge).            *)

\* The sources of the call that hold a record under key, and the tag each
\* holds under it.
Holders(key) ==
    {i \in DOMAIN inputs : \E p \in DOMAIN inputs[i].recs :
                               inputs[i].recs[p].key = key}

SrcTag(i, key) ==
    inputs[i].recs[CHOOSE p \in DOMAIN inputs[i].recs :
                       inputs[i].recs[p].key = key].tag

\* The keys of the records of the sources.
SrcKeys ==
    UNION {{inputs[i].recs[p].key : p \in DOMAIN inputs[i].recs} : i \in DOMAIN inputs}

\* The places of the output records under key.
OutAt(key) == {p \in DOMAIN out.recs : out.recs[p].key = key}

\* The tag of the output record under key.
OutTag(key) == out.recs[CHOOSE p \in OutAt(key) : TRUE].tag

IsPostingKey(key) ==
    ~is_user_metadata_key(key) /\ ~is_valuestats_key(key) /\ ~is_valuechunk_key(key)

\* The term of a posting key (empty for the document lengths) and what
\* follows it in the key: nothing in the key of an initial chunk.
TermOf(key) ==
    IF is_doclenchunk_key(key) THEN <<>> ELSE unpack_string_preserving_sort(key).val

AfterTerm(key) ==
    IF is_doclenchunk_key(key) THEN Drop(key, 2)
    ELSE unpack_string_preserving_sort(key).rest

\* The terms are told apart with the class of the key: the document
\* lengths are the "term" <<0, 224>> here.
ListOf(key) == IF is_doclenchunk_key(key) THEN <<0, 224>> ELSE TermOf(key)

IsInitialKey(key) == IsPostingKey(key) /\ AfterTerm(key) = <<>>

\* tf, cf and firstdid - 1 at the head of an initial chunk's tag.
Header(tag) ==
    LET h1 == unpack_uint(tag)
        h2 == unpack_uint(h1.rest)
        h3 == unpack_uint(h2.rest)
    IN  [tf |-> h1.val, cf |-> h2.val, did |-> h3.val + 1, body |-> h3.rest]

RECURSIVE SumTf(_, _)
SumTf(S, key) ==
    IF S = {} THEN 0
    ELSE LET i == CHOOSE x \in S : TRUE
         IN  Header(SrcTag(i, key)).tf + SumTf(S \ {i}, key)

RECURSIVE SumCf(_, _)
SumCf(S, key) ==
    IF S = {} THEN 0
    ELSE LET i == CHOOSE x \in S : TRUE
         IN  Header(SrcTag(i, key)).cf + SumCf(S \ {i}, key)

\* C5: the header of every initial chunk written holds the sums of the tf
\* and of the cf of the initial chunks the sources hold for the term (so
\* nothing of the previous term is carried over), and when merge_postlists
\* has returned every term of every source has its initial chunk.
C5_TfCfSums ==
    /\ \A p \in DOMAIN out.recs :
           IsInitialKey(out.recs[p].key) =>
               /\ Header(out.recs[p].tag).tf = SumTf(Holders(out.recs[p].key), out.recs[p].key)
               /\ Header(out.recs[p].tag).cf = SumCf(Holders(out.recs[p].key), out.recs[p].key)
    /\ pc = "done" => \A key \in {k \in SrcKeys : IsInitialKey(k)} : Cardinality(OutAt(key)) = 1

\* merge_postlists has returned after it wrote the initial chunks of two
\* terms, the second of them held by two sources or more.
C5_Witness ==
    /\ pc = "done"
    /\ \E key \in {k \in SrcKeys : IsInitialKey(k)} :
           /\ Cardinality(Holders(key)) >= 2
           /\ \E p \in DOMAIN out.recs :
                  /\ IsInitialKey(out.recs[p].key)
                  /\ \A q \in OutAt(key) : p < q
                  /\ Header(out.recs[p].tag).tf > 0

\* C6: in the output no two initial chunks are of the same term (or both
\* of the document lengths), every later chunk comes after the initial
\* chunk of its term, and when merge_postlists has returned every term of
\* which a source holds a chunk has its initial chunk.
C6_OneInitialChunk ==
    /\ \A p, q \in DOMAIN out.recs :
           (p < q /\ IsInitialKey(out.recs[p].key) /\ IsInitialKey(out.recs[q].key))
               => ListOf(out.recs[p].key) # ListOf(out.recs[q].key)
    /\ \A q \in DOMAIN out.recs :
           (IsPostingKey(out.recs[q].key) /\ ~IsInitialKey(out.recs[q].key)) =>
               \E p \in 1..(q - 1) :
                   /\ IsInitialKey(out.recs[p].key)
                   /\ ListOf(out.recs[p].key) = ListOf(out.recs[q].key)
    /\ pc = "done" =>
           \A key \in {k \in SrcKeys : IsPostingKey(k)} :
               Cardinality({p \in DOMAIN out.recs :
                               /\ IsInitialKey(out.recs[p].key)
                               /\ ListOf(out.recs[p].key) = ListOf(key)}) = 1

\* merge_postlists has returned and wrote the chunks of a term that two
\* sources or more hold, a later chunk among them.
C6_Witness ==
    /\ pc = "done"
    /\ \E key \in {k \in SrcKeys : IsInitialKey(k)} :
           /\ Cardinality(Holders(key)) >= 2
           /\ \E q \in DOMAIN out.recs :
                  /\ IsPostingKey(out.recs[q].key) /\ ~IsInitialKey(out.recs[q].key)
                  /\ ListOf(out.recs[q].key) = ListOf(key)

\* The frequencies, lower bounds and upper bounds the sources hold under a
\* valuestats key.
RECURSIVE SumFreq(_, _)
SumFreq(S, key) ==
    IF S = {} THEN 0
    ELSE LET i == CHOOSE x \in S : TRUE
         IN  ParseStats(SrcTag(i, key)).f + SumFreq(S \ {i}, key)

Lowers(key) == {ParseStats(SrcTag(i, key)).l : i \in Holders(key)}
Uppers(key) == {ParseStats(SrcTag(i, key)).u : i \in Holders(key)}
MinLower(key) == CHOOSE l \in Lowers(key) : \A x \in Lowers(key) : StrLeq(l, x)
MaxUpper(key) == CHOOSE u \in Uppers(key) : \A x \in Uppers(key) : StrLeq(x, u)

\* C7: every valuestats record written is the only one under its key and
\* its tag is the packed sum of the sources' frequencies, the packed least
\* lower bound and, only when it differs from that bound, the greatest
\* upper bound; once the valuestats loop has ended every valuestats key of
\* the sources has its record.
C7_ValuestatsFold ==
    /\ \A p \in DOMAIN out.recs :
           is_valuestats_key(out.recs[p].key) =>
               /\ OutAt(out.recs[p].key) = {p}
               /\ out.recs[p].tag =
                      pack_uint(SumFreq(Holders(out.recs[p].key), out.recs[p].key))
                          \o pack_string(MinLower(out.recs[p].key))
                          \o (IF MaxUpper(out.recs[p].key) = MinLower(out.recs[p].key)
                              THEN <<>> ELSE MaxUpper(out.recs[p].key))
    /\ pc \in {"chunks", "posts", "done"} =>
           \A key \in {k \in SrcKeys : is_valuestats_key(k)} : Cardinality(OutAt(key)) = 1

\* merge_postlists has returned after it folded the entries of two sources
\* or more with different lower bounds under one valuestats key.
C7_Witness ==
    /\ pc = "done"
    /\ \E key \in {k \in SrcKeys : is_valuestats_key(k)} :
           /\ Cardinality(Lowers(key)) >= 2
           /\ OutAt(key) # {}

\* The loops after the metadata loop, and the return.
AfterMeta == {"stats", "chunks", "posts", "done"}

LowestHolder(key) == CHOOSE i \in Holders(key) : \A j \in Holders(key) : i <= j

\* C8 as stated: without a resolver every metadata key of the sources has
\* one record, and a key that several sources hold has the tag of the
\* lowest-indexed of them.
C8_FirstSourceWins ==
    (~compactor /\ pc \in AfterMeta) =>
        \A key \in {k \in SrcKeys : is_user_metadata_key(k)} :
            /\ Cardinality(OutAt(key)) = 1
            /\ OutTag(key) = SrcTag(LowestHolder(key), key)

\* C8, amended: without a resolver every metadata key of the sources has
\* one record, its tag is the tag of one of the sources that hold the key,
\* and the record written for a key carries the first of the tags
\* collected for it, that of the cursor the heap returned first.
C8_FirstReturnedWins ==
    /\ [](  (~compactor /\ pc \in AfterMeta) =>
               \A key \in {k \in SrcKeys : is_user_metadata_key(k)} :
                   /\ Cardinality(OutAt(key)) = 1
                   /\ OutTag(key) \in {SrcTag(i, key) : i \in Holders(key)})
    /\ [][ (~compactor /\ pc = "meta" /\ out'.recs # out.recs) =>
               /\ loc.tags # <<>>
               /\ out'.recs = Append(out.recs, [key |-> loc.last_key,
                                                tag |-> loc.tags[1]]) ]_vars

\* Without a resolver, a first source with two metadata keys and a second
\* source with the greater of them only: merge_postlists has returned and
\* the record of that key has the tag of the second source.
C8_Witness ==
    /\ ~compactor /\ pc = "done"
    /\ srcs = <<SrcB, SrcA>>
    /\ Holders(<<0, 192, 107>>) = {1, 2}
    /\ OutAt(<<0, 192, 107>>) # {}
    /\ OutTag(<<0, 192, 107>>) = SrcTag(2, <<0, 192, 107>>)
    /\ OutTag(<<0, 192, 107>>) # SrcTag(1, <<0, 192, 107>>)

-----------------------------------------------------------------------------
(* Claims about multimerge_postlists (SpecMulti).                          *)

\* The sources, of all of them, that hold key.
AllHolders(key) ==
    {i \in DOMAIN srcs : \E p \in DOMAIN srcs[i] : srcs[i][p].key = key}

\* The tag source i has under key.
AllSrcTag(i, key) ==
    srcs[i][CHOOSE p \in DOMAIN srcs[i] : srcs[i][p].key = key].tag

\* The user-metadata keys of all the sources.
AllMetaKeys ==
    {k \in UNION {{srcs[i][p].key : p \in DOMAIN srcs[i]} : i \in DOMAIN srcs} :
        is_user_metadata_key(k)}

\* tags holds, in some order, the tags all the sources have under key.
IsAllTagsOf(tags, key) ==
    /\ Len(tags) = Cardinality(AllHolders(key))
    /\ \A x \in {tags[q] : q \in DOMAIN tags} :
           Cardinality({q \in DOMAIN tags : tags[q] = x})
               = Cardinality({i \in AllHolders(key) : AllSrcTag(i, key) = x})

\* tags holds, in some order, the tags the inputs of the merge_postlists
\* call under way have under key.
IsCallTagsOf(tags, key) ==
    /\ Len(tags) = Cardinality(Holders(key))
    /\ \A x \in {tags[q] : q \in DOMAIN tags} :
           Cardinality({q \in DOMAIN tags : tags[q] = x})
               = Cardinality({i \in Holders(key) : SrcTag(i, key) = x})

\* The single merge_postlists call is call 1, the calls of the cascade
\* are the later ones.
InCascade(c) == c > 1

\* The invocations of the resolver for key in the pass call c belongs to.
PassCalls(key, c) ==
    {p \in DOMAIN resolved : /\ resolved[p].key = key
                             /\ InCascade(resolved[p].call) = InCascade(c)}

\* The invocations of the resolver for key in call c.
CallCalls(key, c) ==
    {p \in DOMAIN resolved : resolved[p].key = key /\ resolved[p].call = c}

C10_CascadeEqualsSinglePass ==
    /\ (drv.at \in {"first", "later", "final"} /\ pc = "failed") =>
           err = "AssertionError"
    /\ drv.at = "end" => out.recs = drv.ref

\* A record with document ids in it: a value chunk or a postlist chunk.
IsDocKeyed(key) == ~is_user_metadata_key(key) /\ ~is_valuestats_key(key)

\* The list and the first document id of a record, as a cursor with
\* offset off gives them.
DocView(rec, off) ==
    [key |-> Normalise(rec.key, rec.tag, off, 0).key,
     did |-> Normalise(rec.key, rec.tag, off, 0).firstdid]

\* The places of the records with document ids in source s.
SrcDocs(s) == {p \in DOMAIN srcs[s] : IsDocKeyed(srcs[s][p].key)}

\* The places of the output records that hold the list and document id v.
OutDocsAt(v) ==
    {q \in DOMAIN out.recs : /\ IsDocKeyed(out.recs[q].key)
                             /\ DocView(out.recs[q], 0) = v}

\* C11: in the cascade the first round gives each source its offset,
\* every later round and the last merge give each input offset 0; the
\* cascade does not fail (the assertion on the block size apart), and
\* when it has returned every document id of source s is in the output
\* once, shifted by offset[s], and the output holds no other.
C11_OffsetsOnce ==
    /\ (drv.at = "first" /\ pc # "idle") =>
           \A x \in DOMAIN offs : offs[x] = offset[drv.i + x]
    /\ (drv.at \in {"later", "final"} /\ pc # "idle") =>
           \A x \in DOMAIN offs : offs[x] = 0
    /\ (drv.at \in {"later", "final"} /\ pc = "failed") =>
           err = "AssertionError"
    /\ drv.at = "end" =>
           /\ \A s \in DOMAIN srcs : \A p \in SrcDocs(s) :
                  Cardinality(OutDocsAt(DocView(srcs[s][p], offset[s]))) = 1
           /\ \A q \in DOMAIN out.recs :
                  IsDocKeyed(out.recs[q].key) =>
                      \E s \in DOMAIN srcs : \E p \in SrcDocs(s) :
                          DocView(out.recs[q], 0) = DocView(srcs[s][p], offset[s])

-----------------------------------------------------------------------------
(* Claims about merge_spellings (SpecSpell).                               *)

\* The words of a word list from the iterator it on.
RECURSIVE WordsFrom(_)
WordsFrom(it) == IF it.end THEN <<>> ELSE <<it.cur>> \o WordsFrom(PCS_inc(it))

\* The words of the tag of a record.
WordsOf(rec) == WordsFrom(PCS_new(MergeCursor_read_tag(rec)))

\* The sources that hold key, and the record source i has under it.
TableHolders(key) ==
    {i \in DOMAIN srcs : \E p \in DOMAIN srcs[i] : srcs[i][p].key = key}
TableRec(i, key) == srcs[i][CHOOSE p \in DOMAIN srcs[i] : srcs[i][p].key = key]

\* The keys of the sources.
TableKeys == UNION {{srcs[i][p].key : p \in DOMAIN srcs[i]} : i \in DOMAIN srcs}

\* The merge has gone past key: no cursor in the queue is at key or before.
PastKey(key, start) ==
    pc # start /\ \A j \in Heap(cur) : StrLess(key, cur[j].key)

\* The words the sources have under key.
UnionWords(key) ==
    UNION {{WordsOf(TableRec(i, key))[q] : q \in DOMAIN WordsOf(TableRec(i, key))} :
           i \in TableHolders(key)}

\* ws is in ascending order with no word twice.
Ascending(ws) == \A q \in 1..(Len(ws) - 1) : StrLess(ws[q], ws[q + 1])

\* C12: a spelling key that does not start with 'W' never has two output
\* records, and once merge_spellings is past the key it has one, whose
\* word list holds the words the sources have under the key, each once,
\* in ascending order.
C12_SpellingUnion ==
    \A key \in {k \in TableKeys : k[1] # 87} :
        /\ Cardinality(OutAt(key)) <= 1
        /\ PastKey(key, "spell_start") =>
               /\ Cardinality(OutAt(key)) = 1
               /\ \A p \in OutAt(key) :
                      /\ Ascending(WordsOf(out.recs[p]))
                      /\ {WordsOf(out.recs[p])[q] : q \in DOMAIN WordsOf(out.recs[p])}
                             = UnionWords(key)

\* Three sources hold the key "Ha", one of them compressed, with the words
\* {a, ab}, {ab, b} and {a, ac, b}: the record written has a, ab, ac, b.
C12_Witness ==
    /\ srcs = <<SpA, SpB, SpC>>
    /\ PastKey(<<72, 97>>, "spell_start")
    /\ \E p \in OutAt(<<72, 97>>) :
           /\ ~out.recs[p].z
           /\ WordsOf(out.recs[p]) = << <<97>>, <<97, 98>>, <<97, 99>>, <<98>> >>

\* The sum of the frequencies the sources h have under key.
RECURSIVE FreqSum(_, _)
FreqSum(key, h) ==
    IF h = {} THEN 0
    ELSE LET i == CHOOSE x \in h : TRUE
         IN  unpack_uint_last(MergeCursor_read_tag(TableRec(i, key))).val
             + FreqSum(key, h \ {i})

\* A source has a frequency of 0 under key.
ZeroFreq(key) ==
    \E i \in TableHolders(key) :
        unpack_uint_last(MergeCursor_read_tag(TableRec(i, key))).val = 0

\* The spelling keys of the sources that start with 'W'.
WKeys == {k \in TableKeys : k[1] = 87}

\* key has at most one output record, and once merge_spellings is past
\* the key it has one, with the sum of the sources' frequencies.
FreqSummed(key) ==
    /\ Cardinality(OutAt(key)) <= 1
    /\ PastKey(key, "spell_start") =>
           /\ Cardinality(OutAt(key)) = 1
           /\ \A p \in OutAt(key) :
                  /\ unpack_uint_last(MergeCursor_read_tag(out.recs[p])).ok
                  /\ unpack_uint_last(MergeCursor_read_tag(out.recs[p])).val
                         = FreqSum(key, TableHolders(key))

\* merge_spellings does not get past key and writes no record for it.
StopsAt(key) == OutAt(key) = {} /\ ~PastKey(key, "spell_start")

\* C13 as stated: a key that starts with 'W' has the sum of the sources'
\* frequencies in its one output record; if a source has a frequency of 0
\* under the key, whether one source holds the key or several,
\* merge_spellings fails with DatabaseCorruptError at the key.
C13_SpellingFreq ==
    /\ pc = "failed" => err = "DatabaseCorruptError"
    /\ \A key \in WKeys :
           IF ZeroFreq(key) THEN StopsAt(key) ELSE FreqSummed(key)

\* C13, amended: a key that starts with 'W' and that several sources
\* hold has the sum of their frequencies in its one output record, and if
\* one of them has a frequency of 0 under it merge_spellings fails with
\* DatabaseCorruptError at the key; a key that one source holds has that
\* source's tag copied, with its compressed flag, whatever its frequency.
C13_SpellingFreqMerged ==
    /\ pc = "failed" =>
           /\ err = "DatabaseCorruptError"
           /\ \E key \in WKeys : /\ Cardinality(TableHolders(key)) >= 2
                                 /\ ZeroFreq(key) /\ StopsAt(key)
    /\ \A key \in WKeys :
           IF Cardinality(TableHolders(key)) = 1
           THEN /\ Cardinality(OutAt(key)) <= 1
                /\ PastKey(key, "spell_start") =>
                       \E i \in TableHolders(key) : \E p \in OutAt(key) :
                           out.recs[p] = TableRec(i, key)
           ELSE IF ZeroFreq(key) THEN StopsAt(key)
           ELSE FreqSummed(key)

\* Two sources: "Wa" with the frequencies 5 and 300, "Wb" in the first
\* only with the frequency 0.  merge_spellings has returned; "Wa" has 305
\* and "Wb" the tag of frequency 0.
C13_Witness ==
    /\ srcs = <<SpB, SpD>>
    /\ pc = "done" /\ err = "none"
    /\ \E p \in OutAt(<<87, 97>>) : out.recs[p].tag = pack_uint_last(305)
    /\ \E p \in OutAt(<<87, 98>>) :
           unpack_uint_last(out.recs[p].tag).val = 0

-----------------------------------------------------------------------------
(* Claims about merge_synonyms (SpecSyn).                                  *)

\* The words of a synonym word list from the iterator it on.
RECURSIVE SynWordsFrom(_)
SynWordsFrom(it) ==
    IF it.end \/ it.bad THEN <<>> ELSE <<it.cur>> \o SynWordsFrom(BLS_inc(it))

\* The words of the tag of a synonym record.
SynWordsOf(rec) == SynWordsFrom(BLS_at(MergeCursor_read_tag(rec)))

\* The words the sources have under the synonym key.
SynUnionWords(key) ==
    UNION {{SynWordsOf(TableRec(i, key))[q] :
                q \in DOMAIN SynWordsOf(TableRec(i, key))} :
           i \in TableHolders(key)}

\* Every word of ws after a byte that is its length XORed with the magic
\* value, the one after the other.
RECURSIVE LengthXorList(_)
LengthXorList(ws) ==
    IF ws = <<>> THEN <<>>
    ELSE <<Xor(Len(ws[1]), MAGIC_XOR_VALUE)>> \o ws[1] \o LengthXorList(Drop(ws, 1))

\* C14: a synonym key never has two output records, and once
\* merge_synonyms is past the key it has one; its tag holds the words the
\* sources have under the key, each once, in ascending order, each after
\* its length byte XORed with the magic value.
C14_SynonymUnion ==
    \A key \in TableKeys :
        /\ Cardinality(OutAt(key)) <= 1
        /\ PastKey(key, "syn_start") =>
               /\ Cardinality(OutAt(key)) = 1
               /\ \A p \in OutAt(key) :
                      \E ws \in {SynWordsOf(out.recs[p])} :
                          /\ Ascending(ws)
                          /\ {ws[q] : q \in DOMAIN ws} = SynUnionWords(key)
                          /\ MergeCursor_read_tag(out.recs[p]) = LengthXorList(ws)

\* Three sources hold the key "a", one of them compressed, with the words
\* {x, y}, {y, zz} and {w, y}: merge_synonyms has returned and the record
\* written has w, x, y, zz.
C14_Witness ==
    /\ srcs = <<SyA, SyB, SyC>>
    /\ pc = "done" /\ err = "none"
    /\ \E p \in OutAt(<<97>>) :
           /\ ~out.recs[p].z
           /\ out.recs[p].tag = <<97, 119, 97, 120, 97, 121, 98, 122, 122>>

-----------------------------------------------------------------------------
(* Claims about GlassDatabase::compact (SpecCompact).                      *)

\* The source database has a termlist table: its file is there, or the
\* database is a single file, which holds every table that is not lazy.
HasTermlist(db) == db.single_file \/ db.errno["termlist"] # "ENOENT"

\* The names of the output tables made so far.
TabNames == {drv.tabs[j].name : j \in DOMAIN drv.tabs}

\* The calls made so far for the output table name.
CallsFor(name) == {q \in DOMAIN drv.log : drv.log[q].name = name}

\* C15: an output termlist table is made, merged into or committed only
\* if every source has a termlist table, and once the driver is past the
\* termlist table it has made one if every source has one.
C15_TermlistSuppression ==
    /\ (\E i \in DOMAIN srcs : ~HasTermlist(srcs[i])) =>
           /\ "termlist" \notin TabNames
           /\ \A q \in CallsFor("termlist") : drv.log[q].ev = "skip"
    /\ ((\A i \in DOMAIN srcs : HasTermlist(srcs[i]))
            /\ (drv.t > 3 \/ (drv.t = 3 /\ pc # "c_table"))) =>
           "termlist" \in TabNames

\* Two sources in directories, the first with every table and the second
\* with every table but the termlist: compact has returned, with output
\* tables, none of them the termlist.
C15_Witness ==
    /\ pc = "done"
    /\ Len(srcs) = 2
    /\ HasTermlist(srcs[1]) /\ ~HasTermlist(srcs[2])
    /\ srcs[2].errno["postlist"] = "ok" /\ srcs[2].errno["position"] = "ok"
    /\ TabNames = TableNames \ {"termlist"}
    /\ \E q \in CallsFor("termlist") : drv.log[q].ev = "skip"

-----------------------------------------------------------------------------
(* Claims about merge_docid_keyed (SpecDocid).                             *)

\* Every key of the source table src starts with a docid.
WellKeyed(src) == \A p \in DOMAIN src : Docid32(src[p].key).ok

\* The largest docid of src, in four bytes (zero for an empty table).
MaxDocid(src) ==
    IF src = <<>> THEN <<0, 0, 0, 0>>
    ELSE CHOOSE d \in {Docid32(src[p].key).did : p \in DOMAIN src} :
             \A p \in DOMAIN src : StrLeq(Docid32(src[p].key).did, d)

\* offset[i] + (largest docid of source i), in five bytes: the sum as a
\* natural number.
TopDocid(i) == AddWrap(<<0>> \o MaxDocid(srcs[i]), offset[i])

\* offset[j], in five bytes.
OffsetBytes(j) ==
    Fill(5 - Len(BigEndian(offset[j])), 0) \o BigEndian(offset[j])

\* offset[j] >= offset[i] + (largest docid of source i)
DocidDisjoint(i, j) == StrLeq(TopDocid(i), OffsetBytes(j))

\* No docid of source i, shifted, is 2^32 or more.
DocidFits(i) == TopDocid(i)[1] = 0

\* The records written so far for the sources up to k.
RECURSIVE DocidWritten(_)
DocidWritten(k) == IF k = 0 THEN 0 ELSE DocidWritten(k - 1) + inputs[k].pos

\* The p-th record written for source i.
DocidOut(i, p) == out.recs[DocidWritten(i - 1) + p]

\* The record o is the record r shifted by off: the docid of the key is
\* r's plus off, the bytes after it, the value and the compressed flag are
\* r's.
DocidShifted(o, r, off) ==
    /\ o.tag = r.tag
    /\ o.z = r.z
    /\ IF off = 0 THEN o.key = r.key
       ELSE /\ Docid32(o.key).ok
            /\ Docid32(o.key).did = AddWrap(Docid32(r.key).did, off)
            /\ Docid32(o.key).rest = Docid32(r.key).rest
            /\ o.key = Docid32_pack(Docid32(o.key).did) \o Docid32(o.key).rest

\* The output is the sources' records in cursor order, one source after
\* the other, each shifted by its source's offset.
DocidSequential ==
    err = "none" =>
        /\ Len(out.recs) = DocidWritten(Len(srcs))
        /\ \A i \in DOMAIN srcs : \A p \in 1..inputs[i].pos :
               DocidShifted(DocidOut(i, p), srcs[i][p], offset[i])

\* The sources i < j the statement is about; fits says whether their
\* shifted docids are also required to stay below 2^32.
DocidPair(i, j, fits) ==
    /\ i < j
    /\ WellKeyed(srcs[i]) /\ WellKeyed(srcs[j])
    /\ DocidDisjoint(i, j)
    /\ fits => (DocidFits(i) /\ DocidFits(j))

\* Every key written for source j is greater than every key written for
\* source i.
DocidAbove(i, j) ==
    \A p \in 1..inputs[i].pos : \A q \in 1..inputs[j].pos :
        StrLess(DocidOut(i, p).key, DocidOut(j, q).key)

DocidIncreasing ==
    \A q \in 1..(Len(out.recs) - 1) :
        StrLess(out.recs[q].key, out.recs[q + 1].key)

DocidOrdered(fits) ==
    /\ err = "none" =>
           \A i, j \in DOMAIN srcs : DocidPair(i, j, fits) => DocidAbove(i, j)
    /\ ((\A i \in DOMAIN srcs : WellKeyed(srcs[i]))
            /\ \A i, j \in DOMAIN srcs : i < j => DocidPair(i, j, fits)) =>
           /\ pc # "failed"
           /\ DocidIncreasing

\* C16 as stated: merge_docid_keyed emits each source's records in cursor
\* order, one source after the other; for sources i < j with
\* offset[j] >= offset[i] + (largest docid of source i) every output key
\* from source j is greater than every output key from source i, so the
\* output keys are strictly increasing and no add is rejected; each value
\* and its compressed flag are written unchanged.
C16_DocidKeyed == DocidSequential /\ DocidOrdered(FALSE)

\* C16, amended: the same, for sources none of whose docids, shifted by
\* the source's offset, is 2^32 or more ("did += off" is 32 bits wide).
C16_DocidKeyedFits == DocidSequential /\ DocidOrdered(TRUE)

\* Two sources with offsets 0 and 4 have been copied: three records of the
\* first, one of them with bytes after the docid and one compressed, then
\* two of the second with docids 5 and 6.
C16_Witness ==
    /\ pc = "done"
    /\ srcs = <<DkB, DkA>> /\ offset = <<0, 4>>
    /\ Len(out.recs) = 5
    /\ out.recs[3].z /\ out.recs[3].key = <<1, 3>>
    /\ out.recs[4].key = <<1, 5>> /\ out.recs[5].key = <<1, 6>>
    /\ out.recs[5].z /\ out.recs[5].tag = DkA[2].tag

-----------------------------------------------------------------------------
(* Claims about the order of compact's steps (SpecCompact).                *)

FixedOrder ==
    <<"postlist", "docdata", "termlist", "position", "spelling", "synonym">>

\* The place of the table name in the fixed order.
OrderOf(name) == CHOOSE x \in DOMAIN FixedOrder : FixedOrder[x] = name

\* The calls ev on the table name, as places in the log.
Calls(ev, name) == {q \in DOMAIN drv.log : drv.log[q] = Event(ev, name)}

\* The output table name was created, merged, flushed, committed and
\* synced, in this order, and all of it before the place q of the log.
CompletedBefore(name, q) ==
    \E q1 \in Calls("create", name), q2 \in Calls("merge", name),
       q3 \in Calls("flush_db", name), q4 \in Calls("commit", name),
       q5 \in Calls("sync", name) :
        q1 < q2 /\ q2 < q3 /\ q3 < q4 /\ q4 < q5 /\ q5 < q

\* The places of the log, and the place after its end.
LogPlaces == 1..(Len(drv.log) + 1)

\* The place of the log that the making of the output table tabs[j] is
\* at: the first call on it, or the end of the log if there is none yet.
MadeAt(j) ==
    CHOOSE q \in LogPlaces :
        /\ q \in CallsFor(drv.tabs[j].name) \/ q = Len(drv.log) + 1
        /\ \A r \in CallsFor(drv.tabs[j].name) : q <= r

Writable == {j \in DOMAIN drv.tabs : drv.tabs[j].st = "writable"}

\* C17: output tables are produced in the fixed order postlist, docdata,
\* termlist, position, spelling, synonym, skipped tables left out; each
\* table's merge, flush_db, commit and sync complete before the next
\* table's output is created, so at most one output table is writable at
\* any time.
C17_TableOrder ==
    /\ \A j, k \in DOMAIN drv.tabs :
           j < k => OrderOf(drv.tabs[j].name) < OrderOf(drv.tabs[k].name)
    /\ \A x \in DOMAIN FixedOrder :
           /\ x < drv.t =>
                  (FixedOrder[x] \in TabNames) # (Calls("skip", FixedOrder[x]) # {})
           /\ x > drv.t =>
                  FixedOrder[x] \notin TabNames /\ CallsFor(FixedOrder[x]) = {}
    /\ \A j \in DOMAIN drv.tabs :
           j < Len(drv.tabs) => CompletedBefore(drv.tabs[j].name, MadeAt(j + 1))
    /\ Cardinality(Writable) <= 1
    /\ \A j \in Writable : j = Len(drv.tabs)

\* The position table is being merged: postlist and docdata are committed
\* and read-only, the termlist was left out, position is the one writable
\* table.
C17_Witness ==
    /\ pc = "c_merge" /\ ~drv.single_file
    /\ [j \in DOMAIN drv.tabs |-> drv.tabs[j].name]
           = <<"postlist", "docdata", "position">>
    /\ [j \in DOMAIN drv.tabs |-> drv.tabs[j].st]
           = <<"read_only", "read_only", "writable">>
    /\ Calls("skip", "termlist") # {}
    /\ CompletedBefore("docdata", MadeAt(3))

\* The version file has been published: version_file_out->sync() returned.
Published == Calls("version_sync", "dest") # {}

\* The table name was processed: left out, or made, merged, flushed,
\* committed and synced, before the place q of the log.
ProcessedBefore(name, q) ==
    \/ \E r \in Calls("skip", name) : r < q
    \/ CompletedBefore(name, q)

\* C18: the version file is published only after every table of the fixed
\* list has been processed and every output table that was created has
\* been committed and synced; on any error during a table's merge the
\* version file is never published.
C18_PublishLast ==
    /\ (drv.version = "published") = Published
    /\ \A q \in Calls("version_sync", "dest") :
           /\ \A x \in DOMAIN FixedOrder : ProcessedBefore(FixedOrder[x], q)
           /\ \A j \in DOMAIN drv.tabs :
                  /\ CompletedBefore(drv.tabs[j].name, q)
                  /\ drv.tabs[j].syncs >= 1
                  /\ drv.tabs[j].st \in {"read_only", "deleted"}
    /\ pc = "failed" => ~Published
    /\ pc \in {"c_table", "c_merge", "c_commit", "c_publish"} => ~Published

\* A run to two sources in a directory has published the version file:
\* five output tables were made, committed and synced, and the termlist
\* was left out.
C18_Witness ==
    /\ pc = "done" /\ Published /\ drv.version = "published"
    /\ Len(drv.tabs) = 5
    /\ Calls("skip", "termlist") # {}
    /\ \A j \in DOMAIN drv.tabs :
           drv.tabs[j].syncs = 2 /\ Calls("commit", drv.tabs[j].name) # {}

\* The run is past the lock step.
PastLock == pc \notin {"c_entry", "c_lock"}

DirtySingleFile == drv.single_file /\ \E i \in DOMAIN srcs : srcs[i].dirty

\* C20: when single-file output is requested and any source has
\* uncommitted changes, compact fails with an invalid-operation error
\* before the destination is opened or created and before any table or
\* version data is written.
C20_DirtySourceRejected ==
    DirtySingleFile =>
        /\ pc \in {"c_entry", "failed"}
        /\ pc = "failed" => err = "InvalidOperationError"
        /\ ~drv.fd_open
        /\ drv.version = "none"
        /\ drv.tabs = <<>>
        /\ drv.log = <<>>
        /\ drv.lock = "none"

\* compact has thrown for single-file output with a clean first source
\* and a second one that has uncommitted changes.
C20_Witness ==
    /\ DirtySingleFile
    /\ Len(srcs) = 2 /\ ~srcs[1].dirty /\ srcs[2].dirty
    /\ pc = "failed" /\ err = "InvalidOperationError"
    /\ drv.log = <<>> /\ ~drv.fd_open

\* Single-file output was asked for and no source has uncommitted changes.
CleanSingleFile == drv.single_file /\ \A i \in DOMAIN srcs : ~srcs[i].dirty

\* The exceptions that the destination or a source, not compact, is the
\* cause of.
OutsideErrors == {"DatabaseCreateError", "DatabaseError", "DatabaseCorruptError"}

\* C21: in single-file mode with sources that have no uncommitted changes
\* compact runs to completion: every non-skipped table is merged and
\* committed into the output file (and the file is padded to a block when
\* the version file is written).
C21_SingleFileCompletes ==
    CleanSingleFile =>
        /\ pc = "failed" => err \in OutsideErrors
        /\ \A j \in DOMAIN drv.tabs : drv.tabs[j].st # "null"
        /\ pc = "done" =>
               \A x \in DOMAIN FixedOrder :
                   \/ Calls("skip", FixedOrder[x]) # {}
                   \/ Calls("commit", FixedOrder[x]) # {}

-----------------------------------------------------------------------------
(* Claims about the posting chunks merge_postlists writes (SpecReversed).  *)

\* The first docid of a posting chunk as a table stores it: in the header
\* of the tag of an initial chunk, in the key of a later one.
ChunkDid(r) ==
    IF IsInitialKey(r.key) THEN Header(r.tag).did
    ELSE unpack_uint_preserving_sort(AfterTerm(r.key)).val

\* The places of the output records of the term (or the document lengths)
\* list.
GroupAt(list) ==
    {p \in DOMAIN out.recs : IsPostingKey(out.recs[p].key)
                             /\ ListOf(out.recs[p].key) = list}

\* The posting chunks the sources hold for list, as pairs of source and
\* place, and the first docid of each in the numbering of the output.
SrcChunks(list) ==
    {c \in UNION {{<<i, p>> : p \in DOMAIN srcs[i]} : i \in DOMAIN srcs} :
        /\ IsPostingKey(srcs[c[1]][c[2]].key)
        /\ ListOf(srcs[c[1]][c[2]].key) = list}

ShiftedDid(c) == ChunkDid(srcs[c[1]][c[2]]) + offset[c[1]]

PostingLists ==
    UNION {{ListOf(srcs[i][p].key) : p \in DOMAIN srcs[i]} : i \in DOMAIN srcs}

\* C22: within each term's group in the output of merge_postlists the
\* chunk records are written in strictly ascending firstdid order whatever
\* the order of the sources, and the firstdid packed in the header of the
\* initial chunk is the smallest firstdid of the group minus 1 (Header
\* gives the packed value plus 1).
C22_ChunksAscending ==
    /\ \A p, q \in DOMAIN out.recs :
           (p < q /\ IsPostingKey(out.recs[p].key)
                  /\ q \in GroupAt(ListOf(out.recs[p].key))) =>
               ChunkDid(out.recs[p]) < ChunkDid(out.recs[q])
    /\ \A p \in DOMAIN out.recs :
           IsInitialKey(out.recs[p].key) =>
               /\ \A c \in SrcChunks(ListOf(out.recs[p].key)) :
                      Header(out.recs[p].tag).did <= ShiftedDid(c)
               /\ \E c \in SrcChunks(ListOf(out.recs[p].key)) :
                      Header(out.recs[p].tag).did = ShiftedDid(c)
    /\ pc = "done" =>
           \A list \in PostingLists :
               SrcChunks(list) # {} =>
                   /\ {ChunkDid(out.recs[p]) : p \in GroupAt(list)}
                          = {ShiftedDid(c) : c \in SrcChunks(list)}
                   /\ Cardinality(GroupAt(list)) = Cardinality(SrcChunks(list))

\* merge_postlists has returned for three sources with the offsets in the
\* opposite order: the chunks of a term of the third source come before
\* those of the second, and a group of three chunks or more was written.
C22_Witness ==
    /\ pc = "done"
    /\ Len(srcs) = 3 /\ offset[1] > offset[2] /\ offset[2] > offset[3]
    /\ \E list \in PostingLists :
           /\ Cardinality(GroupAt(list)) >= 3
           /\ \E c, d \in SrcChunks(list) :
                  c[1] < d[1] /\ ShiftedDid(d) < ShiftedDid(c)

\* The continuation flag of a posting chunk: the byte after the header of
\* an initial chunk, the first byte of a later one ('1' is 49, '0' is 48).
ChunkFlag(r) ==
    IF IsInitialKey(r.key) THEN Header(r.tag).body[1] ELSE r.tag[1]

\* C23: in the output of merge_postlists, for every term exactly one chunk
\* carries the continuation flag '1' and it is the last chunk of that term
\* in key order; every earlier chunk of the term carries '0', whatever
\* flags the source chunks carried.
C23_LastChunkFlag ==
    \A p \in DOMAIN out.recs :
        IsPostingKey(out.recs[p].key) =>
            ChunkFlag(out.recs[p]) =
                IF \A q \in GroupAt(ListOf(out.recs[p].key)) : q <= p
                THEN 49 ELSE 48

\* merge_postlists has returned; a source chunk that carried '1', the
\* last of its source, was written ahead of another chunk of its term and
\* carries '0' in the output.
C23_Witness ==
    /\ pc = "done"
    /\ \E list \in PostingLists : \E c \in SrcChunks(list) :
           /\ ChunkFlag(srcs[c[1]][c[2]]) = 49
           /\ \E p, q \in GroupAt(list) :
                  /\ p < q
                  /\ ChunkDid(out.recs[p]) = ShiftedDid(c)
                  /\ ChunkFlag(out.recs[p]) = 48
                  /\ ChunkFlag(out.recs[q]) = 49

-----------------------------------------------------------------------------
(* Claims about the rounds of multimerge_postlists (SpecMulti).            *)

\* A merge_postlists call of the cascade has been made and the driver has
\* not yet gone on from it.
InRoundCall == drv.at \in {"first", "later"} /\ pc # "idle"

\* The number of tables the round under way takes.
RoundSize == IF drv.at = "first" THEN Len(srcs) ELSE Len(drv.tmp)

\* The number of groups of a round over size tables: pairs, the last
\* table of an odd count joining the last pair.
Groups(size) == size \div 2

\* C24: given n > 3 inputs, each round of multimerge_postlists partitions
\* its inputs, in order, into consecutive groups of 2 with a last group of
\* 3 when the count is odd; every merge_postlists call it makes,
\* intermediate or final, has 2 or 3 inputs; the number of tables strictly
\* decreases each round; and the rounds end with one final merge into the
\* real output.
C24_CascadeGroups ==
    /\ [](  /\ InRoundCall =>
                /\ drv.i % 2 = 0 /\ drv.i < RoundSize /\ drv.j <= RoundSize
                /\ drv.j = IF RoundSize - drv.i = 3 THEN RoundSize ELSE drv.i + 2
                /\ Len(inputs) = drv.j - drv.i
                /\ Len(inputs) \in {2, 3}
                /\ Len(inputs) = 3 => (RoundSize % 2 = 1 /\ drv.j = RoundSize)
                /\ drv.at = "first" =>
                       \A x \in DOMAIN inputs :
                           inputs[x].kind = "glass" /\ inputs[x].recs = srcs[drv.i + x]
                /\ drv.at = "later" =>
                       \A x \in DOMAIN inputs : inputs[x].kind = "sst"
                /\ pc # "failed" =>
                       Len(IF drv.at = "first" THEN drv.tmp ELSE drv.tmpout)
                           = drv.i \div 2
            /\ drv.at = "later" => (Len(drv.tmp) >= 2 /\ Len(drv.tmp) < Len(srcs))
            /\ drv.at \in {"final", "end"} =>
                /\ Len(inputs) = Len(drv.tmp)
                /\ Len(inputs) \in {2, 3}
                /\ \A x \in DOMAIN inputs : inputs[x].kind = "sst" )
    /\ [][ /\ (drv.at = "first" /\ drv'.at # "first" /\ pc' # "failed") =>
                /\ drv'.at = "later" /\ drv.i = Len(srcs)
                /\ Len(drv'.tmp) = Groups(Len(srcs))
                /\ Len(drv'.tmp) < Len(srcs)
           /\ (drv.at = "later" /\ drv'.c # drv.c) =>
                /\ drv.i = Len(drv.tmp) /\ Len(drv.tmp) > 3
                /\ Len(drv'.tmp) = Groups(Len(drv.tmp))
                /\ Len(drv'.tmp) < Len(drv.tmp)
           /\ (drv.at # "final" /\ drv'.at = "final") =>
                /\ drv.at = "later" /\ drv.i = 0 /\ pc = "idle"
                /\ Len(drv.tmp) <= 3
           /\ (drv.at = "final") => drv'.at \in {"final", "end"}
           /\ (drv.at # "end" /\ drv'.at = "end") => (drv.at = "final" /\ pc = "done")
           /\ (drv.at = "end") => drv'.at = "end" ]_vars

\* A cascade over eight sources has returned: a first round of four
\* calls, a later round of two and the final merge of two tables.
C24_Witness ==
    /\ drv.at = "end" /\ pc = "done"
    /\ Len(srcs) = 8 /\ Len(drv.tmp) = 2 /\ drv.c = 2
    /\ drv.calls = 8


-----------------------------------------------------------------------------
(* Claims about the cursors of a heap merge (SpecMerge).                   *)

\* The records cursor i has taken from its table.
Consumed(i) == inputs[i].pos
\* The loops of merge_postlists.
InLoop == pc \in {"meta", "stats", "chunks", "posts"}

-----------------------------------------------------------------------------
(* Claims about the tags merge_spellings and merge_synonyms write          *)
(* (SpecSpell).                                                            *)

\* The records of the sources that have the key: <<source, place>>.
KeyHolders(key) ==
    UNION {{<<i, q>> : q \in {x \in DOMAIN srcs[i] : srcs[i][x].key = key}} :
           i \in DOMAIN srcs}
\* The record of the only holder of key.
OnlyHolder(key) ==
    srcs[(CHOOSE h \in KeyHolders(key) : TRUE)[1]][(CHOOSE h \in KeyHolders(key) : TRUE)[2]]

-----------------------------------------------------------------------------
(* Claims about the order of the calls on an SSTable (SpecSST).            *)

\* C27: a commit before any flush_db fails with InvalidOperationError and
\* leaves the table writable and the RootInfo unmodified; a commit
\* succeeds only after a flush_db and makes the table read-only; a
\* read-only table never becomes writable again, and every add on it
\* fails with InvalidOperationError and writes nothing.
C27_WriterProtocol ==
    [][ /\ (call'.op = "commit" /\ proto.flushes = 0) =>
               /\ call'.err = "InvalidOperationError"
               /\ tbl' = tbl /\ ~tbl'.read_only
               /\ root_info' = root_info
        /\ (call'.op = "commit" /\ proto.flushes > 0) =>
               /\ call'.err = "none"
               /\ tbl'.read_only
               /\ root_info'.root = tbl.root
               /\ root_info'.num_entries = tbl.num_entries
        /\ tbl.read_only => tbl'.read_only
        /\ (tbl.read_only /\ call'.op = "add") =>
               /\ call'.err = "InvalidOperationError"
               /\ tbl' = tbl
               /\ accepted' = accepted /\ root_info' = root_info ]_vars

\* A table of two records was committed and an add was then refused.
C27_Witness ==
    /\ tbl.read_only
    /\ call = [op |-> "add", err |-> "InvalidOperationError"]
    /\ Len(accepted) = 2
    /\ proto.flushes = 1 /\ root_info.num_entries = 2


-----------------------------------------------------------------------------
(* Claims about the bytes a BufferedFile reads and writes.                 *)

\* The offset in the file of the next byte a reader is to return.
ReadPos == BufferedFile_get_pos(tbl.fh)
\* The byte the file holds there, EOF at its end.
ByteAt(pos) == IF pos < Len(tbl.fh.file) THEN tbl.fh.file[pos + 1] ELSE EOF

\* C28: once commit has rewound the file, in every state the reads of
\* read_item leave it in, read() returns the byte of the file at the
\* reader's offset, and EOF exactly when that offset is the file's length,
\* whatever the length of the file.
C28_ReadsInFileOrder ==
    tbl.fh.read_only => BufferedFile_read_ch(tbl.fh).ch = ByteAt(ReadPos)


\* C29: when the operating system accepts only part of a write, write and
\* flush retry until every byte is accepted, so that after flush the file
\* holds the bytes passed to write, in call order, none lost, doubled or
\* out of place.
C29_ShortWritesRetried ==
    call.op = "flush" => out.fh.file = out.passed


-----------------------------------------------------------------------------
(* Claims about the sparse index (SpecIndex).                              *)

\* The offsets the index data records, in order: each entry is the reuse
\* byte, the length byte, that many key bytes and the packed offset.
RECURSIVE IndexPtrs(_)
IndexPtrs(data) ==
    IF Len(data) < 2 THEN <<>>
    ELSE <<unpack_uint(Drop(data, 2 + data[2])).val>>
             \o IndexPtrs(unpack_uint(Drop(data, 2 + data[2])).rest)

BlockOf(ptr) == ptr \div INDEXBLOCK
\* The blocks that have an entry.
EntryBlocks(ix) == {BlockOf(IndexPtrs(ix.data)[e]) : e \in DOMAIN IndexPtrs(ix.data)}
\* The block of the last entry made, 0 when there is none.
LastEntryBlock(ix) ==
    IF ix.data = <<>> THEN 0
    ELSE BlockOf(IndexPtrs(ix.data)[Len(IndexPtrs(ix.data))])
\* The offsets passed that are the first of their block, block 0 apart.
FirstOfBlock ==
    {out.app[k].ptr : k \in {x \in DOMAIN out.app :
                                /\ BlockOf(out.app[x].ptr) # 0
                                /\ \A j \in 1..(x - 1) :
                                       BlockOf(out.app[j].ptr) # BlockOf(out.app[x].ptr)}}

\* The entries are in strictly increasing offset order, no two in the
\* same block, and the index's block is the block of the last entry.
IndexSparse ==
    /\ Len(IndexPtrs(out.index.data)) = out.index.n_index
    /\ out.index.block = LastEntryBlock(out.index)
    /\ \A e, f \in DOMAIN IndexPtrs(out.index.data) :
           e < f => /\ IndexPtrs(out.index.data)[e] < IndexPtrs(out.index.data)[f]
                    /\ BlockOf(IndexPtrs(out.index.data)[e])
                           < BlockOf(IndexPtrs(out.index.data)[f])

\* A call makes an entry if and only if the block of its offset differs
\* from the block of the last entry made (0 at first); the entry records
\* the offset of the call.
EmitsOnNewBlock ==
    Len(out'.app) = Len(out.app) + 1 =>
        IF BlockOf(out'.app[Len(out'.app)].ptr) # LastEntryBlock(out.index)
        THEN IndexPtrs(out'.index.data)
                 = Append(IndexPtrs(out.index.data), out'.app[Len(out'.app)].ptr)
        ELSE out'.index = out.index

\* C30 as stated: an entry is made if and only if offset / INDEXBLOCK
\* differs from the block of the last entry made (block 0 at first), the
\* recorded offsets are strictly increasing with no two in the same
\* block, and the index holds one entry for each block of the data
\* region, that is of the offsets up to the last one passed.
C30_OneEntryPerBlock ==
    /\ [](/\ IndexSparse
          /\ out.app # <<>> => EntryBlocks(out.index) = 0..BlockOf(LastPtr))
    /\ [][EmitsOnNewBlock]_vars

\* C30 amended: the same rule and order, and the index holds at most one
\* entry per block: none for block 0, and for a later block one exactly
\* when an offset passed lies in it, recording the first such offset; a
\* block no offset lies in has no entry.
C30_AtMostOnePerBlock ==
    /\ [](/\ IndexSparse
          /\ {IndexPtrs(out.index.data)[e] : e \in DOMAIN IndexPtrs(out.index.data)}
                 = FirstOfBlock
          /\ 0 \notin EntryBlocks(out.index))
    /\ [][EmitsOnNewBlock]_vars

\* Four calls: one in block 0, two in one later block, one two blocks on;
\* the index has two entries and a block between them has none.
C30_Witness ==
    /\ Len(out.app) = 4
    /\ BlockOf(out.app[1].ptr) = 0
    /\ BlockOf(out.app[2].ptr) = BlockOf(out.app[3].ptr)
    /\ BlockOf(out.app[4].ptr) > BlockOf(out.app[3].ptr) + 1
    /\ out.index.n_index = 2


-----------------------------------------------------------------------------
(* Claims about the temporary tables of multimerge_postlists (SpecMulti).  *)

\* C31: after each temporary table has been flushed and committed, the
\* RootInfo initialised for it with block size 65536 still reports 65536,
\* so that the assertion after the commit never fails.
C31_BlocksizeKept ==
    drv.at \in {"first", "later", "final", "end"} =>
        /\ root_info.blocksize = 65536
        /\ err # "AssertionError"


\* The temporary tables of tmp that exist (are not deleted).
LiveTmp(d) == {k \in DOMAIN d.tmp : d.tmp[k] # NullTable}
\* The places in tmp of the tables the merge_postlists call under way
\* reads.
ReadByCall ==
    IF drv.at = "later" /\ pc # "idle" THEN (drv.i + 1)..drv.j
    ELSE IF drv.at = "final" THEN DOMAIN drv.tmp
    ELSE {}
\* The merge_postlists call under way has not returned.
CallRunning == pc \notin {"idle", "done", "failed"}

\* C32: a temporary table is deleted once, in the step after the
\* merge_postlists call that reads it has returned; a call reads only
\* tables that exist; the vector tmp is replaced only when every table in
\* it is deleted, and when multimerge_postlists returns every temporary
\* table is deleted; the sources are never touched.
C32_TempTablesDeleted ==
    /\ [](/\ CallRunning => ReadByCall \subseteq LiveTmp(drv)
          /\ (drv.at \in {"later", "final"} /\ pc = "start") =>
                 \A x \in DOMAIN inputs :
                     inputs[x].kind = "sst" /\ inputs[x].t # NullTable
          /\ drv.at = "end" =>
                 /\ LiveTmp(drv) = {} /\ drv.tmpout = <<>>
                 /\ Len(drv.tmp) \in {2, 3})
    /\ [][ /\ \A k \in LiveTmp(drv) :
                  (drv'.c = drv.c /\ k \notin LiveTmp(drv')) =>
                      /\ pc = "done" /\ k \in ReadByCall
                      /\ Len(drv'.tmp) = Len(drv.tmp)
           /\ (drv'.c = drv.c /\ Len(drv'.tmp) = Len(drv.tmp)) =>
                  LiveTmp(drv') \subseteq LiveTmp(drv)
           /\ (drv.at = "later" /\ drv'.c # drv.c) =>
                  /\ LiveTmp(drv) = {}
                  /\ drv'.tmp = drv.tmpout
                  /\ LiveTmp(drv') = DOMAIN drv'.tmp
           /\ srcs' = srcs ]_vars

\* A cascade over eight sources has returned: the four tables of the
\* first round were deleted in the later round, pair by pair, and the two
\* tables of the later round after the last merge.
C32_Witness ==
    /\ drv.at = "end" /\ pc = "done"
    /\ Len(srcs) = 8 /\ drv.c = 2
    /\ Len(drv.tmp) = 2 /\ LiveTmp(drv) = {}


\* C33: merge_postlists writes every record with the compressed flag
\* clear, so that a cascaded merge never reads a record with the flag set
\* back from a temporary table and the cursor's abort() on a compressed
\* record is never taken.
C33_NoCompressedReadBack ==
    /\ err # "abort"
    /\ \A x \in DOMAIN cur : "z" \notin DOMAIN cur[x]

=============================================================================
